---- MODULE Spec2Model ----
(***************************************************************************)
(* rad1 chess engine: the transposition table (rad1/src/tt.rs), the move   *)
(* hash (src/move_hash.rs), the move ordering (rad1/src/lib.rs) and the    *)
(* iterative-deepening PVS search (rad1/src/agent/ab.rs).                  *)
(*                                                                         *)
(* The rules of chess come from the external `chess` crate.  They are      *)
(* represented by a finite game graph (GameGraph): every position has a    *)
(* Zobrist key, a check flag, a piece count, the legal moves in move-      *)
(* generator order (each with the piece on its source square, the piece    *)
(* on its destination square and the resulting position) and the position  *)
(* a null move leads to.  The static evaluation of the ongoing positions   *)
(* is the agent's evaluator, drawn from a bounded set in Init.             *)
(***************************************************************************)
EXTENDS Integers, Sequences, FiniteSets, TLC

VARIABLES
    agent,     \* AlphaBetaChessAgent: [depth, tt, evaluator]
    chess_board, \* the chess::Board handed to NaiveEvaluator::evaluate
    calls,     \* history: one record per completed get_action call
    hist,      \* history: the update_evaluation_and_best_move calls made on agent.tt
    ret,       \* the value returned by the last probe of agent.tt
    search,    \* the get_action call in progress: its root and iteration
    stack,     \* the call stack of the search in progress, innermost frame last
    threads,   \* the threads that share agent.tt: the table call each is in
    stdin,     \* the lines CommandLineAgent::get_action has read from standard input
    stdout     \* the lines CommandLineAgent::get_action has printed

vars == <<agent, calls, chess_board, hist, ret, search, stack, threads, stdin, stdout>>

(***************************************************************************)
(* Bounds of the model.                                                    *)
(***************************************************************************)
MaxDepth == 2        \* configured search depths are 1..MaxDepth
MaxCalls == 2        \* get_action calls made on one agent
MaxStores == 2       \* stores made on the table under test
CacheCapacity == 10  \* the cache_size handed to TranspositionTable::new
MaxPly == 4          \* search depths of the single-call specifications
MaxHalfMoves == 4    \* opening moves played before an evaluation
MaxOps == 2          \* calls made by the threads that share a table
MaxLines == 3        \* lines read from standard input in one get_action call

(***************************************************************************)
(* Program constants.                                                      *)
(***************************************************************************)
MIN == -30000
MAX == 30000
ZERO == 0
HASH_SIZE == 20480
DEEP_INIT_DEPTH == 255
PROMOTION_SCORE == 10
I8_MAX == 127

\* Option<T>: None is the empty sequence, Some(x) the one-element sequence.
None == <<>>
Some(x) == <<x>>

\* The element of a one-element set.  Only({e(v) : v \in {call}}) is e of the
\* value of call, with the call evaluated once.
Only(S) == CHOOSE v \in S : TRUE

\* i16 arithmetic wraps (release build); every operand is an i16.
I16(x) == ((x + 32768) % 65536) - 32768
Neg(x) == I16(0 - x)

(***************************************************************************)
(* move_hash.rs                                                            *)
(***************************************************************************)
PROMOTION_PIECES == <<"Queen", "Knight", "Rook", "Bishop">>

ChessMove(src, dst, promo) == [src |-> src, dst |-> dst, promo |-> promo]

\* panic!("Invalid promotion piece calculating hash"): get_hash has no value
get_hash_panics(chess_move) ==
    /\ chess_move.promo # "None"
    /\ \A k \in DOMAIN PROMOTION_PIECES : chess_move.promo # PROMOTION_PIECES[k]

get_hash_source_stride_64(chess_move) ==
    LET promotion_piece_index ==
            IF chess_move.promo # "None"
            THEN IF chess_move.promo = PROMOTION_PIECES[1] THEN 1
                 ELSE IF chess_move.promo = PROMOTION_PIECES[2] THEN 2
                 ELSE IF chess_move.promo = PROMOTION_PIECES[3] THEN 3
                 ELSE IF chess_move.promo = PROMOTION_PIECES[4] THEN 4
                 ELSE CHOOSE n \in {} : TRUE    \* unreachable: get_hash_panics
            ELSE 0
    IN  (chess_move.src * 64 + chess_move.dst * 5 + promotion_piece_index) % 65536

get_hash(chess_move) ==
    LET promotion_piece_index ==
            IF chess_move.promo # "None"
            THEN IF chess_move.promo = PROMOTION_PIECES[1] THEN 1
                 ELSE IF chess_move.promo = PROMOTION_PIECES[2] THEN 2
                 ELSE IF chess_move.promo = PROMOTION_PIECES[3] THEN 3
                 ELSE IF chess_move.promo = PROMOTION_PIECES[4] THEN 4
                 ELSE CHOOSE n \in {} : TRUE    \* unreachable: get_hash_panics
            ELSE 0
    IN  (chess_move.src * 64 * 5 + chess_move.dst * 5 + promotion_piece_index) % 65536

get_move_without_promotion(hash) ==
    ChessMove(hash \div (64 * 5), (hash \div 5) % 64, "None")

\* MOVE_HASH[hash]: the table is filled source by source, destination by
\* destination, the move without promotion first and then one entry per
\* promotion piece.
get_move(hash) ==
    LET k == hash % 5
    IN  ChessMove(hash \div (64 * 5), (hash \div 5) % 64,
                  IF k = 0 THEN "None" ELSE PROMOTION_PIECES[k])

(***************************************************************************)
(* node.rs                                                                 *)
(***************************************************************************)
pv_node(value) == [kind |-> "Principal", value |-> value]
all_node(value) == [kind |-> "All", value |-> value]
cut_node(value) == [kind |-> "Cut", value |-> value]
NodeValueDefault == pv_node(0)

(***************************************************************************)
(* tt.rs                                                                   *)
(***************************************************************************)
EvaluationHash(hash, depth, value, best_move_hash) ==
    [hash |-> hash, depth |-> depth, value |-> value, best_move_hash |-> best_move_hash]

\* `log` is a history field: the alpha_beta calls that returned since the
\* get_action call in progress began, in the order they returned; `stores`
\* is a history field too: the stores made on the table since then.
\* Every bucket is a Mutex of its own; deep_poisoned and shallow_poisoned are
\* the poison flags of these mutexes.
New(capacity) ==
    LET size == capacity \div 2
    IN  [cache_size |-> size,
         log |-> <<>>,
         stores |-> <<>>,
         deep_poisoned |-> [i \in 0..(size - 1) |-> FALSE],
         shallow_poisoned |-> [i \in 0..(size - 1) |-> FALSE],
         deep_cache |-> [i \in 0..(size - 1) |->
                            EvaluationHash(0, DEEP_INIT_DEPTH, NodeValueDefault, 0)],
         shallow_cache |-> [i \in 0..(size - 1) |->
                            EvaluationHash(0, 0, NodeValueDefault, 0)]]

entry_matches_key_only(value, hash) == value.hash = hash

\* the hit test shared by the probes: the stored key matches and a move is stored
entry_matches(value, hash) == value.hash = hash /\ value.best_move_hash # 0

best_move_deep_first(tt, hash) ==
    LET i == hash % tt.cache_size
    IN  IF entry_matches(tt.deep_cache[i], hash)
        THEN Some(get_move(tt.deep_cache[i].best_move_hash))
        ELSE IF entry_matches(tt.shallow_cache[i], hash)
        THEN Some(get_move(tt.shallow_cache[i].best_move_hash))
        ELSE None

best_move(tt, hash) ==
    LET i == hash % tt.cache_size
    IN  IF entry_matches(tt.shallow_cache[i], hash)
        THEN Some(get_move(tt.shallow_cache[i].best_move_hash))
        ELSE IF entry_matches(tt.deep_cache[i], hash)
        THEN Some(get_move(tt.deep_cache[i].best_move_hash))
        ELSE None

get_evaluation_and_depth(tt, hash) ==
    LET i == hash % tt.cache_size
    IN  IF entry_matches(tt.deep_cache[i], hash)
        THEN Some(<<tt.deep_cache[i].value, tt.deep_cache[i].depth>>)
        ELSE IF entry_matches(tt.shallow_cache[i], hash)
        THEN Some(<<tt.shallow_cache[i].value, tt.shallow_cache[i].depth>>)
        ELSE None

overwrite_clears_move(value, hash, depth, node, bm) ==
    [hash |-> hash, depth |-> depth, value |-> node,
     best_move_hash |-> IF bm # None THEN get_hash(bm[1]) ELSE 0]

\* the assignments made to a bucket that is overwritten
overwrite(value, hash, depth, node, bm) ==
    [hash |-> hash, depth |-> depth, value |-> node,
     best_move_hash |-> IF bm # None THEN get_hash(bm[1]) ELSE value.best_move_hash]

shallow_replaces_lt(value, depth) == value.depth < depth

shallow_replaces(value, depth) == value.depth <= depth

deep_replaces_gt(value, depth) == value.depth > depth

deep_replaces_always(value, depth) == TRUE

deep_replaces(value, depth) == value.depth >= depth

update_evaluation_and_best_move(tt, hash, depth, node, bm) ==
    LET i == hash % tt.cache_size
        s == tt.shallow_cache[i]
        e == tt.deep_cache[i]
    IN  [tt EXCEPT
            !.stores = Append(@, [hash |-> hash, depth |-> depth, node |-> node, bm |-> bm]),
            !.shallow_cache[i] =
                IF shallow_replaces(s, depth) THEN overwrite(s, hash, depth, node, bm) ELSE s,
            !.deep_cache[i] =
                IF deep_replaces(e, depth) THEN overwrite(e, hash, depth, node, bm) ELSE e]

(***************************************************************************)
(* The chess rules (external crate `chess`): a finite game graph.          *)
(* G(src, dst, att, vic, to) is a legal move from square src to square dst *)
(* of the piece att, onto the opponent's piece vic ("None": an empty       *)
(* square), leading to position `to`.  A capture lowers the piece count by *)
(* one, any other move keeps it; the side to move alternates.  Positions   *)
(* 11 and 13 are checkmates, positions 12, 18 and 25 are stalemates; 1 ->  *)
(* 2 -> 5 -> 9 -> 1 is a cycle of quiet moves, 5 is reached from 2 and     *)
(* from 4, and 17 is reached from 14 by a capture and a quiet move in      *)
(* either order (through 16 and through 15).  In 21 the side to move is in *)
(* check; its two king moves lead to 22 and, through 23, to 24, whose key  *)
(* shares a table slot with the key of 22.  In 24 the side to move stands  *)
(* worse and its only move leaves it no better.  Position 27 has moves of   *)
(* every kind, generated in an order that is not the sorted one: a quiet   *)
(* move, promotions without capture, a capture with promotion and captures *)
(* by and of several pieces; they lead to the stalemates 28 and 29.        *)
(***************************************************************************)
G(src, dst, att, vic, to) ==
    [mv |-> ChessMove(src, dst, "None"), att |-> att, vic |-> vic, to |-> to]

\* a pawn move from src to dst that promotes to promo
GP(src, dst, promo, vic, to) ==
    [mv |-> ChessMove(src, dst, promo), att |-> "Pawn", vic |-> vic, to |-> to]

P(key, chk, pcs, null, moves) ==
    [key |-> key, chk |-> chk, pcs |-> pcs, null |-> null, moves |-> moves]

GameGraph ==
    << P(11, FALSE, 6, 9, << G(1, 18, "Knight", "None", 2),
                             G(2, 38, "Bishop", "Pawn", 3),
                             G(12, 28, "Pawn", "None", 4) >>),
       P(10, FALSE, 6, 8, << G(57, 42, "Knight", "None", 5),
                             G(59, 11, "Queen", "Rook", 6) >>),
       P(20, FALSE, 5, 6, << G(47, 38, "Pawn", "Bishop", 7),
                             G(57, 42, "Knight", "None", 6) >>),
       P(30, TRUE, 6, 0,  << G(60, 52, "King", "None", 5),
                             G(61, 52, "Bishop", "None", 8) >>),
       P(40, FALSE, 6, 2, << G(12, 28, "Pawn", "None", 9),
                             G(18, 35, "Knight", "Pawn", 3) >>),
       P(31, FALSE, 5, 3, << G(3, 59, "Rook", "None", 11),
                             G(3, 11, "Rook", "Queen", 10) >>),
       P(41, FALSE, 4, 12, << G(4, 5, "King", "None", 12),
                              G(30, 54, "Queen", "Pawn", 13) >>),
       P(50, FALSE, 6, 9, << G(1, 18, "Knight", "None", 2) >>),
       P(51, FALSE, 6, 5, << G(42, 57, "Knight", "None", 1),
                             G(61, 25, "Bishop", "Knight", 6) >>),
       P(60, TRUE, 4, 0,  << G(60, 59, "King", "None", 7) >>),
       P(61, TRUE, 5, 0, << >>),
       P(70, FALSE, 4, 7, << >>),
       P(71, TRUE, 3, 0, << >>),
       P(104, FALSE, 5, 15, << G(9, 17, "Pawn", "None", 15),
                               G(7, 39, "Rook", "Bishop", 16) >>),
       P(105, FALSE, 5, 14, << G(46, 39, "Pawn", "Knight", 17) >>),
       P(101, FALSE, 4, 17, << G(46, 38, "Pawn", "None", 17),
                               G(46, 39, "Pawn", "Queen", 18) >>),
       P(102, TRUE, 4, 0,   << G(6, 5, "King", "None", 19) >>),
       P(106, FALSE, 3, 19, << >>),
       P(103, FALSE, 4, 20, << G(38, 30, "Pawn", "None", 20) >>),
       P(100, FALSE, 4, 16, << G(5, 4, "King", "None", 16) >>),
       P(112, TRUE, 3, 0,   << G(4, 3, "King", "None", 22),
                               G(4, 5, "King", "None", 23) >>),
       P(113, FALSE, 3, 24, << G(10, 18, "Pawn", "None", 25) >>),
       P(116, FALSE, 3, 26, << G(49, 41, "Pawn", "None", 24) >>),
       P(118, FALSE, 3, 22, << G(50, 42, "Pawn", "None", 26) >>),
       P(117, FALSE, 3, 21, << >>),
       P(119, FALSE, 3, 23, << G(11, 19, "Pawn", "None", 23) >>),
       P(120, FALSE, 10, 28, << G(18, 28, "Knight", "None", 28),
                                G(7, 55, "Queen", "Pawn", 29),
                                GP(49, 57, "Queen", "None", 28),
                                G(0, 56, "Rook", "Rook", 29),
                                G(4, 11, "King", "Knight", 29),
                                GP(49, 57, "Knight", "None", 28),
                                GP(49, 56, "Queen", "Rook", 29),
                                G(18, 35, "Knight", "Queen", 29) >>),
       P(121, FALSE, 10, 27, << >>),
       P(122, FALSE, 9, 27, << >>) >>

Positions == 1..Len(GameGraph)

Range(f) == {f[i] : i \in DOMAIN f}

\* Position::get_hash
position_hash(board) == GameGraph[board].key

\* Position::in_check: board.checkers().popcnt() > 0
in_check(board) == GameGraph[board].chk

\* MoveGen::new_legal(board), in generation order
legal_moves(board) == [i \in DOMAIN GameGraph[board].moves |-> GameGraph[board].moves[i].mv]

\* Board::legal
legal(board, chess_move) == \E i \in DOMAIN legal_moves(board) : legal_moves(board)[i] = chess_move

move_record(board, chess_move) ==
    CHOOSE g \in Range(GameGraph[board].moves) : g.mv = chess_move

\* Board::make_move_new.  The search only makes legal moves; the crate leaves
\* the result for any other move unspecified, and it is the board itself here.
make_move_new(board, chess_move) ==
    IF legal(board, chess_move) THEN move_record(board, chess_move).to ELSE board

\* Board::null_move: None when the side to move is in check
null_move(board) == IF in_check(board) THEN None ELSE Some(GameGraph[board].null)

\* Board::status
status(board) ==
    IF Len(GameGraph[board].moves) > 0 THEN "Ongoing"
    ELSE IF in_check(board) THEN "Checkmate" ELSE "Stalemate"

(***************************************************************************)
(* lib.rs: move ordering                                                   *)
(***************************************************************************)
PieceIndex(piece) ==
    CASE piece = "Pawn" -> 1 [] piece = "Knight" -> 2 [] piece = "Bishop" -> 3
      [] piece = "Rook" -> 4 [] piece = "Queen" -> 5 [] piece = "King" -> 6

is_capture(board, chess_move) == move_record(board, chess_move).vic # "None"

is_promotion(chess_move) == chess_move.promo # "None"

capture_score_victim_first(board, a) ==
    LET values == <<1, 3, 3, 5, 9, 0>>
    IN  IF is_capture(board, a)
        THEN values[PieceIndex(move_record(board, a).vic)]
             - values[PieceIndex(move_record(board, a).att)]
        ELSE IF is_promotion(a) THEN PROMOTION_SCORE
        ELSE I8_MAX

capture_score(board, a) ==
    LET values == <<1, 3, 3, 5, 9, 0>>
    IN  IF is_capture(board, a)
        THEN values[PieceIndex(move_record(board, a).att)]
             - values[PieceIndex(move_record(board, a).vic)]
        ELSE IF is_promotion(a) THEN PROMOTION_SCORE
        ELSE I8_MAX

\* compare_moves(a, b) is Less or Equal: a stays before b in the stable sort
compare_moves_le(board, a, b) == capture_score(board, a) <= capture_score(board, b)

\* Vec::sort_by(compare_moves): a stable sort, smallest capture_score first
RECURSIVE sort_by(_, _)
sort_by(board, moves) ==
    IF moves = <<>> THEN <<>>
    ELSE Only({LET n == Len(moves)
                   k == Cardinality({i \in DOMAIN front :
                                        compare_moves_le(board, front[i], moves[n])})
               IN  SubSeq(front, 1, k) \o <<moves[n]>> \o SubSeq(front, k + 1, Len(front)) :
               front \in {sort_by(board, SubSeq(moves, 1, Len(moves) - 1))}})

SortedLegal == [board \in Positions |-> sort_by(board, legal_moves(board))]

sorted_moves_hint_unchecked(board, hint) ==
    (IF hint # None THEN <<hint[1]>> ELSE <<>>) \o SortedLegal[board]

sorted_moves(board, hint) ==
    (IF hint # None /\ legal(board, hint[1]) THEN <<hint[1]>> ELSE <<>>)
        \o SortedLegal[board]

\* captures(board): the legal moves onto a square the opponent occupies
captures(board) == SelectSeq(legal_moves(board), LAMBDA m : is_capture(board, m))

SortedCaptures == [board \in Positions |-> sort_by(board, captures(board))]

sorted_captures(board) == SortedCaptures[board]

(***************************************************************************)
(* eval/naive.rs: the material and piece-square total of an ongoing        *)
(* position is the evaluator's entry for it.                               *)
(***************************************************************************)
evaluate_without_status(evaluator, board) == evaluator[board]

evaluate_i16_min(evaluator, board) ==
    CASE status(board) = "Stalemate" -> ZERO
      [] status(board) = "Checkmate" -> -32768
      [] OTHER -> evaluator[board]

evaluate(evaluator, board) ==
    CASE status(board) = "Stalemate" -> ZERO
      [] status(board) = "Checkmate" -> MIN
      [] OTHER -> evaluator[board]

min_value == MIN
max_value == MAX

(***************************************************************************)
(* agent/ab.rs.  The table is passed by reference in the code; here every  *)
(* function that can store returns the table with its result.              *)
(***************************************************************************)
\* tt.get_evaluation_and_depth(board), the call cached_evaluation makes (line 40)
probe(tt, board) == get_evaluation_and_depth(tt, position_hash(board))

cached_evaluation_any_depth(tt, board, depth, alpha, beta) ==
    LET hit == probe(tt, board)
    IN  IF hit = None THEN [ret |-> None, alpha |-> alpha, beta |-> beta]
        ELSE LET cached_eval == hit[1][1]
             IN  IF cached_eval.kind = "Principal"
                 THEN [ret |-> Some(cached_eval.value), alpha |-> alpha, beta |-> beta]
                 ELSE IF cached_eval.kind = "All"
                 THEN [ret |-> None,
                       alpha |-> IF alpha >= cached_eval.value THEN alpha
                                 ELSE cached_eval.value,
                       beta |-> beta]
                 ELSE [ret |-> None, alpha |-> alpha,
                       beta |-> IF beta <= cached_eval.value THEN beta
                                ELSE cached_eval.value]

\* returns the Option and the (possibly tightened) alpha and beta
cached_evaluation(tt, board, depth, alpha, beta) ==
    LET hit == probe(tt, board)
    IN  IF hit = None THEN [ret |-> None, alpha |-> alpha, beta |-> beta]
        ELSE LET cached_eval == hit[1][1]
                 evaluation_depth == hit[1][2]
             IN  IF evaluation_depth >= depth
                 THEN IF cached_eval.kind = "Principal"
                      THEN [ret |-> Some(cached_eval.value), alpha |-> alpha, beta |-> beta]
                      ELSE IF cached_eval.kind = "All"
                      THEN [ret |-> None,
                            alpha |-> IF alpha >= cached_eval.value THEN alpha
                                      ELSE cached_eval.value,
                            beta |-> beta]
                      ELSE [ret |-> None, alpha |-> alpha,
                            beta |-> IF beta <= cached_eval.value THEN beta
                                     ELSE cached_eval.value]
                 ELSE [ret |-> None, alpha |-> alpha, beta |-> beta]

\* the node update_cache stores (lines 72-81)
node_of(alpha, beta, value) ==
    IF value <= alpha THEN all_node(value)
    ELSE IF value >= beta THEN cut_node(value)
    ELSE pv_node(value)

update_cache_without_move(tt, board, depth, alpha, beta, value, chess_move) ==
    update_evaluation_and_best_move(tt, position_hash(board), depth,
                                    node_of(alpha, beta, value), None)

update_cache(tt, board, depth, alpha, beta, value, chess_move) ==
    update_evaluation_and_best_move(tt, position_hash(board), depth,
                                    node_of(alpha, beta, value), Some(chess_move))

check_extension_always(board, depth, check_extension_enabled) ==
    IF in_check(board)
    THEN [depth |-> depth + 1, check_extension_enabled |-> check_extension_enabled]
    ELSE [depth |-> depth, check_extension_enabled |-> check_extension_enabled]

check_extension_keeps_flag(board, depth, check_extension_enabled) ==
    IF check_extension_enabled /\ in_check(board)
    THEN [depth |-> depth + 1, check_extension_enabled |-> TRUE]
    ELSE [depth |-> depth, check_extension_enabled |-> check_extension_enabled]

\* returns the (possibly extended) depth and the (possibly cleared) flag
check_extension(board, depth, check_extension_enabled) ==
    IF check_extension_enabled /\ in_check(board)
    THEN [depth |-> depth + 1, check_extension_enabled |-> FALSE]
    ELSE [depth |-> depth, check_extension_enabled |-> check_extension_enabled]

expand(tt, board) == sorted_moves(board, best_move(tt, position_hash(board)))

stand_pat_ignored(alpha, evaluation) == alpha

\* the stand-pat evaluation raises alpha (lines 108-110)
stand_pat(alpha, evaluation) == IF alpha < evaluation THEN evaluation ELSE alpha

RECURSIVE q_search(_, _, _, _)
RECURSIVE q_search_loop(_, _, _, _, _, _)
\* the for loop of q_search over moves[i..]
q_search_loop(evaluator, board, moves, i, alpha, beta) ==
    IF i > Len(moves) THEN alpha
    ELSE Only({IF score >= beta THEN beta
               ELSE q_search_loop(evaluator, board, moves, i + 1,
                                  IF score > alpha THEN score ELSE alpha, beta) :
               score \in {Neg(q_search(evaluator, make_move_new(board, moves[i]),
                                       Neg(beta), Neg(alpha)))}})

q_search(evaluator, board, alpha, beta) ==
    LET evaluation == evaluate(evaluator, board)
    IN  IF evaluation >= beta THEN beta
        ELSE q_search_loop(evaluator, board, sorted_captures(board), 1,
                           stand_pat(alpha, evaluation), beta)

RECURSIVE null_alpha_beta(_, _, _, _, _)
RECURSIVE null_alpha_beta_loop(_, _, _, _, _, _, _)
\* the for loop of null_alpha_beta over moves[i..]
null_alpha_beta_loop(evaluator, board, depth, moves, i, alpha, beta) ==
    IF i > Len(moves) THEN alpha
    ELSE Only({IF val >= beta THEN beta
               ELSE null_alpha_beta_loop(evaluator, board, depth, moves, i + 1,
                                         IF val > alpha THEN val ELSE alpha, beta) :
               val \in {Neg(null_alpha_beta(evaluator, make_move_new(board, moves[i]),
                                            depth - 1, Neg(beta), Neg(alpha)))}})

null_alpha_beta(evaluator, board, depth, alpha, beta) ==
    IF depth = 0 THEN evaluate(evaluator, board)
    ELSE null_alpha_beta_loop(evaluator, board, depth, sorted_moves(board, None), 1,
                              alpha, beta)

is_horizon_below_2(depth) == depth <= 1

\* the horizon test of alpha_beta (line 265)
is_horizon(depth) == depth = 0

null_move_pruning_depth_2(evaluator, board, depth, beta) ==
    IF /\ depth >= 3
       /\ null_move(board) # None
       /\ Neg(null_alpha_beta(evaluator, null_move(board)[1], depth - 2,
                              Neg(beta), I16(Neg(beta) + 1))) >= beta
    THEN Some(beta)
    ELSE None

\* the null-move pruning of alpha_beta (lines 270-279): Some(beta) when
\* alpha_beta returns beta here, None when it goes on
null_move_pruning(evaluator, board, depth, beta) ==
    IF /\ depth >= 3
       /\ null_move(board) # None
       /\ Neg(null_alpha_beta(evaluator, null_move(board)[1], depth - 3,
                              Neg(beta), I16(Neg(beta) + 1))) >= beta
    THEN Some(beta)
    ELSE None

RECURSIVE alpha_beta(_, _, _, _, _, _, _)
RECURSIVE null_window_search(_, _, _, _, _, _, _)
RECURSIVE principal_variation_search(_, _, _, _, _, _, _)
RECURSIVE pvs_loop(_, _, _, _, _, _, _, _, _, _)

re_search_above_alpha(evaluator, first, board, depth, alpha, beta, check_extension_enabled) ==
    IF alpha < Neg(first.value)
    THEN Only({[value |-> Neg(again.value), tt |-> again.tt,
                first |-> Len(first.tt.log), again |-> Len(again.tt.log)] :
               again \in {alpha_beta(evaluator, first.tt, board, depth - 1, Neg(beta),
                                     Neg(alpha), check_extension_enabled)}})
    ELSE [value |-> Neg(first.value), tt |-> first.tt,
          first |-> Len(first.tt.log), again |-> 0]

\* the re-search of null_window_search (lines 177-189), given the first
\* result; history: `first` and `again` are the places in the log of the
\* alpha_beta calls made (again = 0: no second call)
re_search(evaluator, first, board, depth, alpha, beta, check_extension_enabled) ==
    IF alpha < Neg(first.value) /\ Neg(first.value) < beta
    THEN Only({[value |-> Neg(again.value), tt |-> again.tt,
                first |-> Len(first.tt.log), again |-> Len(again.tt.log)] :
               again \in {alpha_beta(evaluator, first.tt, board, depth - 1, Neg(beta),
                                     Neg(alpha), check_extension_enabled)}})
    ELSE [value |-> Neg(first.value), tt |-> first.tt,
          first |-> Len(first.tt.log), again |-> 0]

\* history: what principal_variation_search did with moves[i]: the alpha it
\* had before, the calls it made, the score, and alpha and best_move after
Step(i, alpha, first, again, value, alpha2, chess_move) ==
    [i |-> i, alpha |-> alpha, first |-> first, again |-> again, value |-> value,
     alpha2 |-> alpha2, best_move |-> chess_move]

null_window_search(evaluator, tt, board, depth, alpha, beta, check_extension_enabled) ==
    Only({re_search(evaluator, first, board, depth, alpha, beta, check_extension_enabled) :
          first \in {alpha_beta(evaluator, tt, board, depth - 1, I16(Neg(alpha) - 1),
                                Neg(alpha), check_extension_enabled)}})

\* the for loop of principal_variation_search over moves[i..]; `steps` is
\* the history of the moves searched
pvs_loop(evaluator, tt, board, depth, moves, i, alpha, beta, check_extension_enabled, chess_move) ==
    IF i > Len(moves)
    THEN [value |-> alpha, best_move |-> chess_move, tt |-> tt, steps |-> <<>>]
    ELSE Only({
           LET raised == r.value > alpha
               alpha2 == IF raised THEN r.value ELSE alpha
               best2 == IF raised THEN moves[i] ELSE chess_move
               step == Step(i, alpha, r.first, r.again, r.value, alpha2, best2)
           IN  IF alpha2 >= beta
               THEN [value |-> alpha2, best_move |-> best2, tt |-> r.tt,
                     steps |-> <<step>>]
               ELSE Only({[rest EXCEPT !.steps = <<step>> \o @] :
                          rest \in {pvs_loop(evaluator, r.tt, board, depth, moves, i + 1,
                                             alpha2, beta, check_extension_enabled,
                                             best2)}}) :
           r \in {null_window_search(evaluator, tt, make_move_new(board, moves[i]),
                                     depth, alpha, beta, check_extension_enabled)}})

principal_variation_search(evaluator, tt, board, depth, alpha, beta, check_extension_enabled) ==
    Only({
      LET value == Neg(first.value)
          alpha2 == IF value > alpha THEN value ELSE alpha
          step == Step(1, alpha, Len(first.tt.log), 0, value, alpha2, moves[1])
      IN  IF alpha2 >= beta
          THEN [value |-> alpha2, best_move |-> moves[1], tt |-> first.tt,
                moves |-> moves, steps |-> <<step>>]
          ELSE Only({[value |-> rest.value, best_move |-> rest.best_move, tt |-> rest.tt,
                      moves |-> moves, steps |-> <<step>> \o rest.steps] :
                     rest \in {pvs_loop(evaluator, first.tt, board, depth, moves, 2,
                                        alpha2, beta, check_extension_enabled,
                                        moves[1])}}) :
      moves \in {expand(tt, board)},
      first \in {alpha_beta(evaluator, tt, make_move_new(board, expand(tt, board)[1]),
                            depth - 1, Neg(beta), Neg(alpha), check_extension_enabled)}})

\* history: a call that did not reach principal_variation_search
NoMoves == [moves |-> <<>>, steps |-> <<>>]

\* history: the alpha_beta call on `board` that leaves by `exit` with `value`,
\* having stored `node` with the move `bm` (None: no store, no move), joins
\* the log; x is what check_extension gave, c what cached_evaluation gave,
\* entry the table the call was given, pvs the moves
\* principal_variation_search had and the steps it took
Returned(tt, board, x, c, entry, alpha_orig, beta_orig, exit, value, node, bm, pvs) ==
    [tt EXCEPT !.log = Append(@, [board |-> board, depth |-> x.depth,
                                  check_extension_enabled |-> x.check_extension_enabled,
                                  probe |-> probe(entry, board),
                                  stores_in |-> Len(entry.stores),
                                  stores_out |-> Len(tt.stores),
                                  alpha_orig |-> alpha_orig, beta_orig |-> beta_orig,
                                  alpha |-> c.alpha, beta |-> c.beta,
                                  exit |-> exit, value |-> value,
                                  node |-> node, bm |-> bm,
                                  moves |-> pvs.moves, steps |-> pvs.steps])]

\* the body of alpha_beta after check_extension (x) and cached_evaluation (c)
alpha_beta_body(evaluator, tt, board, x, c, alpha_orig, beta_orig) ==
    IF c.ret # None
    THEN [value |-> c.ret[1],
          tt |-> Returned(tt, board, x, c, tt, alpha_orig, beta_orig, "hit",
                          c.ret[1], None, None, NoMoves)]
    ELSE IF status(board) # "Ongoing"
    THEN [value |-> evaluate(evaluator, board),
          tt |-> Returned(tt, board, x, c, tt, alpha_orig, beta_orig,
                          "terminal", evaluate(evaluator, board), None, None, NoMoves)]
    ELSE IF is_horizon(x.depth)
    THEN Only({[value |-> value,
                tt |-> Returned(update_evaluation_and_best_move(
                                    tt, position_hash(board), x.depth, pv_node(value), None),
                                board, x, c, tt, alpha_orig, beta_orig,
                                "horizon", value, Some(pv_node(value)), None, NoMoves)] :
               value \in {q_search(evaluator, board, c.alpha, c.beta)}})
    ELSE IF null_move_pruning(evaluator, board, x.depth, c.beta) # None
    THEN Only({[value |-> value,
                tt |-> Returned(tt, board, x, c, tt, alpha_orig, beta_orig,
                                "null", value, None, None, NoMoves)] :
               value \in {null_move_pruning(evaluator, board, x.depth, c.beta)[1]}})
    ELSE Only({[value |-> r.value,
                tt |-> Returned(update_cache(r.tt, board, x.depth, alpha_orig, c.beta,
                                             r.value, r.best_move),
                                board, x, c, tt, alpha_orig, beta_orig,
                                "pvs", r.value, Some(node_of(alpha_orig, c.beta, r.value)),
                                Some(r.best_move), r)] :
               r \in {principal_variation_search(evaluator, tt, board, x.depth, c.alpha,
                                                 c.beta, x.check_extension_enabled)}})

alpha_beta(evaluator, tt, board, depth, alpha, beta, check_extension_enabled) ==
    Only({alpha_beta_body(evaluator, tt, board, x,
                          cached_evaluation(tt, board, x.depth, alpha, beta), alpha, beta) :
          x \in {check_extension(board, depth, check_extension_enabled)}})

iterative_deepening_last_only(evaluator, tt, board, i, depth, scores) ==
    Only({[tt |-> r.tt, scores |-> <<r.value>>] :
          r \in {alpha_beta(evaluator, tt, board, depth, min_value, max_value, TRUE)}})

\* the for loop of get_action over i..=depth; `scores` collects what each
\* alpha_beta call returned (the code discards it)
RECURSIVE iterative_deepening(_, _, _, _, _, _)
iterative_deepening(evaluator, tt, board, i, depth, scores) ==
    IF i > depth THEN [tt |-> tt, scores |-> scores]
    ELSE Only({iterative_deepening(evaluator, r.tt, board, i + 1, depth,
                                   Append(scores, r.value)) :
               r \in {alpha_beta(evaluator, tt, board, i, min_value, max_value, TRUE)}})

MakeMove(chess_move) == [kind |-> "MakeMove", chess_move |-> chess_move]
\* moves[0] on an empty Vec panics (index out of bounds)
Panic == [kind |-> "Panic", chess_move |-> ChessMove(0, 0, "None")]

\* get_action(&self, game): the action, the table afterwards, the scores
get_action(self, board) ==
    Only({LET moves == expand(r.tt, board)
          IN  [action |-> IF moves = <<>> THEN Panic ELSE MakeMove(moves[1]),
               tt |-> r.tt, scores |-> r.scores] :
          r \in {iterative_deepening(self.evaluator, self.tt, board, 1, self.depth, <<>>)}})

(***************************************************************************)
(* The agent: construction and get_action calls.                           *)
(***************************************************************************)
EvalVals == {-10, 0, 10}
FreeEval == {2, 3, 5, 6}
BaseEval == <<0, 0, 0, 10, 0, 0, -10, 10, 0, 0, 0, 0, 0,
              0, -10, 0, -10, 0, -10, 0,
              0, 0, 0, -10, 0, 10, 0, 0, 0>>
Evaluators ==
    {[board \in Positions |-> IF board \in FreeEval THEN f[board] ELSE BaseEval[board]] :
        f \in [FreeEval -> EvalVals]}

\* the positions get_action is called on
Roots == {1, 3, 4, 5, 6, 7, 11, 14, 21, 24}

Init ==
    /\ agent \in [depth : 1..MaxDepth, tt : {New(CacheCapacity)}, evaluator : Evaluators]
    /\ calls = <<>>
    /\ hist = <<>>
    /\ ret = None
    /\ search = None
    /\ stack = <<>>
    /\ chess_board = None
    /\ threads = <<>>
    /\ stdin = <<>>
    /\ stdout = <<>>

GetAction(board) ==
    /\ Len(calls) < MaxCalls
    /\ \E r \in {get_action(agent, board)} :
           /\ agent' = [agent EXCEPT !.tt = [r.tt EXCEPT !.log = <<>>, !.stores = <<>>]]
           /\ calls' = Append(calls, [board |-> board,
                                      hint |-> best_move(agent.tt, position_hash(board)),
                                      action |-> r.action,
                                      scores |-> r.scores,
                                      log |-> r.tt.log,
                                      stores |-> r.tt.stores,
                                      before |-> agent.tt])
    /\ UNCHANGED <<hist, ret, search, stack, chess_board, threads, stdin, stdout>>

Next == \E board \in Roots : GetAction(board)

Spec == Init /\ [][Next]_vars

(***************************************************************************)
(* One get_action call of an agent of depth up to MaxPly on a new table.   *)
(***************************************************************************)
InitDeep ==
    /\ agent \in [depth : 1..MaxPly, tt : {New(CacheCapacity)}, evaluator : Evaluators]
    /\ calls = <<>>
    /\ hist = <<>>
    /\ ret = None
    /\ search = None
    /\ stack = <<>>
    /\ chess_board = None
    /\ threads = <<>>
    /\ stdin = <<>>
    /\ stdout = <<>>

FirstGetAction(board) == calls = <<>> /\ GetAction(board)

NextDeep == \E board \in Roots : FirstGetAction(board)

SpecDeep == InitDeep /\ [][NextDeep]_vars

(***************************************************************************)
(* The transposition table on its own: stores and probes made through the  *)
(* public functions of tt.rs on a newly constructed table.  Keys 7 and 12  *)
(* share a slot.                                                           *)
(***************************************************************************)
Keys == {7, 12}
Depths == {0, 1, 8, 255}
Nodes == {pv_node(50), pv_node(100)}
E2E4 == ChessMove(12, 28, "None")
E7E8Q == ChessMove(52, 60, "Queen")
Moves == {E2E4, E7E8Q}

InitTT ==
    /\ agent = [depth |-> 1, tt |-> New(CacheCapacity), evaluator |-> BaseEval]
    /\ calls = <<>>
    /\ hist = <<>>
    /\ ret = None
    /\ search = None
    /\ stack = <<>>
    /\ chess_board = None
    /\ threads = <<>>
    /\ stdin = <<>>
    /\ stdout = <<>>

\* tt.update_evaluation_and_best_move(position, depth, node, best_move)
Store(hash, depth, node, bm) ==
    /\ Len(hist) < MaxStores
    /\ agent' = [agent EXCEPT
                    !.tt = update_evaluation_and_best_move(agent.tt, hash, depth, node, bm)]
    /\ hist' = Append(hist, [hash |-> hash, depth |-> depth, node |-> node, bm |-> bm,
                             before |-> agent.tt])
    /\ ret' = None
    /\ UNCHANGED <<calls, search, stack, chess_board, threads, stdin, stdout>>

\* tt.best_move(position)
BestMove(hash) ==
    /\ ret' = [op |-> "best_move", hash |-> hash, value |-> best_move(agent.tt, hash)]
    /\ UNCHANGED <<agent, calls, hist, search, stack, chess_board, threads, stdin, stdout>>

\* tt.get_evaluation_and_depth(position)
GetEvaluationAndDepth(hash) ==
    /\ ret' = [op |-> "get_evaluation_and_depth", hash |-> hash,
               value |-> get_evaluation_and_depth(agent.tt, hash)]
    /\ UNCHANGED <<agent, calls, hist, search, stack, chess_board, threads, stdin, stdout>>

NextTT ==
    \/ \E hash \in Keys, depth \in Depths, node \in Nodes, bm \in {None} \cup {Some(m) : m \in Moves} :
          Store(hash, depth, node, bm)
    \/ \E hash \in Keys : BestMove(hash)
    \/ \E hash \in Keys : GetEvaluationAndDepth(hash)

SpecTT == InitTT /\ [][NextTT]_vars

(***************************************************************************)
(* The transposition table shared by several threads (Arc of the table,    *)
(* every function takes &self).  A thread calls the public functions of    *)
(* tt.rs; each block of a function locks one bucket, works on it and       *)
(* unlocks it, so a block is one step and the steps of the threads         *)
(* interleave.  A thread first acquires the mutex of the block's bucket     *)
(* (lock() waits while another thread holds it) and then runs the block;   *)
(* the guard is dropped where the block ends, the function returns or the  *)
(* thread panics.  `held` is the set of mutexes a thread holds.            *)
(* `interleaved` is a history field of a thread: one of its blocks ran on  *)
(* a slot while another thread was between the two blocks of a store on    *)
(* that slot.                                                              *)
(***************************************************************************)
ThreadIds == {1, 2}
E7E8K == ChessMove(52, 60, "King")
SharedDepths == {0, 1}
SharedMoves == {None, Some(E2E4), Some(E7E8K)}

IdleThread ==
    [pc |-> "idle", op |-> "none", hash |-> 0, depth |-> 0, node |-> NodeValueDefault,
     bm |-> None, result |-> None, cause |-> "none", interleaved |-> FALSE, held |-> {}]

InitShared ==
    /\ agent = [depth |-> 1, tt |-> New(CacheCapacity), evaluator |-> BaseEval]
    /\ calls = <<>>
    /\ hist = <<>>
    /\ ret = None
    /\ search = None
    /\ stack = <<>>
    /\ chess_board = None
    /\ threads = [t \in ThreadIds |-> IdleThread]
    /\ stdin = <<>>
    /\ stdout = <<>>

\* another thread is between the shallow and the deep block of a store on slot i
MidStore(t, i) ==
    \E u \in ThreadIds \ {t} :
        threads[u].pc = "store_deep" /\ threads[u].hash % agent.tt.cache_size = i

\* the mutex that the block thread th is at locks
Needs(th) ==
    <<IF th.pc \in {"store_shallow", "best_move_shallow", "evaluation_shallow"}
      THEN "shallow" ELSE "deep",
      th.hash % agent.tt.cache_size>>

released_at_return(held, mutex) == held

\* the guard of a block is dropped at the closing brace of the block
released(held, mutex) == held \ {mutex}

\* .lock() of the block thread t is at: the thread waits until no thread
\* holds the mutex
Acquire(t) ==
    /\ threads[t].pc \notin {"idle", "panicked"}
    /\ \A u \in ThreadIds : Needs(threads[t]) \notin threads[u].held
    /\ threads' = [threads EXCEPT ![t].held = @ \cup {Needs(threads[t])}]
    /\ UNCHANGED <<agent, calls, hist, ret, search, stack, chess_board, stdin, stdout>>

\* thread t, holding the mutex, has run a block on slot i and goes on as
\* `next`; a return and a panic drop every guard
Block(t, i, next) ==
    /\ Needs(threads[t]) \in threads[t].held
    /\ threads' = [threads EXCEPT ![t] =
                      [next EXCEPT !.interleaved = @ \/ MidStore(t, i),
                                   !.held = IF next.pc \in {"idle", "panicked"} THEN {}
                                            ELSE released(@, Needs(threads[t]))]]

\* .lock().unwrap() on a poisoned mutex
PoisonPanic(th) == [th EXCEPT !.pc = "panicked", !.cause = "PoisonError"]

\* panic inside move_hash::get_hash
HashPanic(th) == [th EXCEPT !.pc = "panicked", !.cause = "Invalid promotion piece"]

Done(th, result) == [th EXCEPT !.pc = "idle", !.result = result]

\* the record of a thread that has entered a public function
Entered(op, pc, hash, depth, node, bm) ==
    [pc |-> pc, op |-> op, hash |-> hash, depth |-> depth, node |-> node, bm |-> bm,
     result |-> None, cause |-> "none", interleaved |-> FALSE, held |-> {}]

\* a thread calls tt.update_evaluation_and_best_move(position, depth, node, best_move)
CallStore(t, hash, depth, node, bm) ==
    /\ threads[t].pc = "idle"
    /\ Len(hist) < MaxOps
    /\ threads' = [threads EXCEPT ![t] =
                      [Entered("update_evaluation_and_best_move", "store_shallow",
                               hash, depth, node, bm)
                          EXCEPT !.interleaved = threads[t].interleaved]]
    /\ hist' = Append(hist, [thread |-> t, op |-> "update_evaluation_and_best_move"])
    /\ UNCHANGED <<agent, calls, ret, search, stack, chess_board, stdin, stdout>>

\* a thread calls tt.best_move(position)
CallBestMove(t, hash) ==
    /\ threads[t].pc = "idle"
    /\ Len(hist) < MaxOps
    /\ threads' = [threads EXCEPT ![t] =
                      [Entered("best_move", "best_move_shallow", hash, 0, NodeValueDefault, None)
                          EXCEPT !.interleaved = threads[t].interleaved]]
    /\ hist' = Append(hist, [thread |-> t, op |-> "best_move"])
    /\ UNCHANGED <<agent, calls, ret, search, stack, chess_board, stdin, stdout>>

\* a thread calls tt.get_evaluation_and_depth(position)
CallGetEvaluationAndDepth(t, hash) ==
    /\ threads[t].pc = "idle"
    /\ Len(hist) < MaxOps
    /\ threads' = [threads EXCEPT ![t] =
                      [Entered("get_evaluation_and_depth", "evaluation_deep",
                               hash, 0, NodeValueDefault, None)
                          EXCEPT !.interleaved = threads[t].interleaved]]
    /\ hist' = Append(hist, [thread |-> t, op |-> "get_evaluation_and_depth"])
    /\ UNCHANGED <<agent, calls, ret, search, stack, chess_board, stdin, stdout>>

\* update_evaluation_and_best_move, the block "update shallow cache"
StoreShallow(t) ==
    /\ threads[t].pc = "store_shallow"
    /\ LET th == threads[t]
           i == th.hash % agent.tt.cache_size
           s == agent.tt.shallow_cache[i]
       IN  IF agent.tt.shallow_poisoned[i]
           THEN Block(t, i, PoisonPanic(th)) /\ UNCHANGED agent
           ELSE IF ~shallow_replaces(s, th.depth)
           THEN Block(t, i, [th EXCEPT !.pc = "store_deep"]) /\ UNCHANGED agent
           ELSE IF th.bm # None /\ get_hash_panics(th.bm[1])
           THEN /\ Block(t, i, HashPanic(th))
                /\ agent' = [agent EXCEPT
                       !.tt.shallow_cache[i] = overwrite(s, th.hash, th.depth, th.node, None),
                       !.tt.shallow_poisoned[i] = TRUE]
           ELSE /\ Block(t, i, [th EXCEPT !.pc = "store_deep"])
                /\ agent' = [agent EXCEPT
                       !.tt.shallow_cache[i] = overwrite(s, th.hash, th.depth, th.node, th.bm)]
    /\ UNCHANGED <<calls, hist, ret, search, stack, chess_board, stdin, stdout>>

\* update_evaluation_and_best_move, the block "update deep cache"
StoreDeep(t) ==
    /\ threads[t].pc = "store_deep"
    /\ LET th == threads[t]
           i == th.hash % agent.tt.cache_size
           e == agent.tt.deep_cache[i]
       IN  IF agent.tt.deep_poisoned[i]
           THEN Block(t, i, PoisonPanic(th)) /\ UNCHANGED agent
           ELSE IF ~deep_replaces(e, th.depth)
           THEN Block(t, i, Done(th, None)) /\ UNCHANGED agent
           ELSE IF th.bm # None /\ get_hash_panics(th.bm[1])
           THEN /\ Block(t, i, HashPanic(th))
                /\ agent' = [agent EXCEPT
                       !.tt.deep_cache[i] = overwrite(e, th.hash, th.depth, th.node, None),
                       !.tt.deep_poisoned[i] = TRUE]
           ELSE /\ Block(t, i, Done(th, None))
                /\ agent' = [agent EXCEPT
                       !.tt.deep_cache[i] = overwrite(e, th.hash, th.depth, th.node, th.bm)]
    /\ UNCHANGED <<calls, hist, ret, search, stack, chess_board, stdin, stdout>>

\* best_move, the block "try from shallow cache first"
BestMoveShallow(t) ==
    /\ threads[t].pc = "best_move_shallow"
    /\ LET th == threads[t]
           i == th.hash % agent.tt.cache_size
           s == agent.tt.shallow_cache[i]
       IN  IF agent.tt.shallow_poisoned[i] THEN Block(t, i, PoisonPanic(th))
           ELSE IF entry_matches(s, th.hash)
           THEN Block(t, i, Done(th, Some(get_move(s.best_move_hash))))
           ELSE Block(t, i, [th EXCEPT !.pc = "best_move_deep"])
    /\ UNCHANGED <<agent, calls, hist, ret, search, stack, chess_board, stdin, stdout>>

\* best_move, the block "try from deep cache second"
BestMoveDeep(t) ==
    /\ threads[t].pc = "best_move_deep"
    /\ LET th == threads[t]
           i == th.hash % agent.tt.cache_size
           e == agent.tt.deep_cache[i]
       IN  IF agent.tt.deep_poisoned[i] THEN Block(t, i, PoisonPanic(th))
           ELSE IF entry_matches(e, th.hash)
           THEN Block(t, i, Done(th, Some(get_move(e.best_move_hash))))
           ELSE Block(t, i, Done(th, None))
    /\ UNCHANGED <<agent, calls, hist, ret, search, stack, chess_board, stdin, stdout>>

\* get_evaluation_and_depth, the block "try from deep cache first"
EvaluationDeep(t) ==
    /\ threads[t].pc = "evaluation_deep"
    /\ LET th == threads[t]
           i == th.hash % agent.tt.cache_size
           e == agent.tt.deep_cache[i]
       IN  IF agent.tt.deep_poisoned[i] THEN Block(t, i, PoisonPanic(th))
           ELSE IF entry_matches(e, th.hash)
           THEN Block(t, i, Done(th, Some(<<e.value, e.depth>>)))
           ELSE Block(t, i, [th EXCEPT !.pc = "evaluation_shallow"])
    /\ UNCHANGED <<agent, calls, hist, ret, search, stack, chess_board, stdin, stdout>>

\* get_evaluation_and_depth, the block "try from shallow cache second"
EvaluationShallow(t) ==
    /\ threads[t].pc = "evaluation_shallow"
    /\ LET th == threads[t]
           i == th.hash % agent.tt.cache_size
           s == agent.tt.shallow_cache[i]
       IN  IF agent.tt.shallow_poisoned[i] THEN Block(t, i, PoisonPanic(th))
           ELSE IF entry_matches(s, th.hash)
           THEN Block(t, i, Done(th, Some(<<s.value, s.depth>>)))
           ELSE Block(t, i, Done(th, None))
    /\ UNCHANGED <<agent, calls, hist, ret, search, stack, chess_board, stdin, stdout>>

NextShared ==
    \E t \in ThreadIds :
        \/ \E hash \in Keys, depth \in SharedDepths, node \in Nodes, bm \in SharedMoves :
              CallStore(t, hash, depth, node, bm)
        \/ \E hash \in Keys : CallBestMove(t, hash)
        \/ \E hash \in Keys : CallGetEvaluationAndDepth(t, hash)
        \/ Acquire(t)
        \/ StoreShallow(t)
        \/ StoreDeep(t)
        \/ BestMoveShallow(t)
        \/ BestMoveDeep(t)
        \/ EvaluationDeep(t)
        \/ EvaluationShallow(t)

SpecShared == InitShared /\ [][NextShared]_vars

\* the steps of thread t inside a function of the table
Run(t) ==
    \/ Acquire(t)
    \/ StoreShallow(t)
    \/ StoreDeep(t)
    \/ BestMoveShallow(t)
    \/ BestMoveDeep(t)
    \/ EvaluationDeep(t)
    \/ EvaluationShallow(t)

\* every thread that can take a step is scheduled in the end
SpecSharedFair == SpecShared /\ \A t \in ThreadIds : WF_vars(Run(t))

(***************************************************************************)
(* eval/naive.rs on boards of the chess crate.  A board is the side to     *)
(* move and the pieces on the squares 0..63 (A1 = 0, H1 = 7, A8 = 56).     *)
(* The tables are indexed by square, first entry for A1.                   *)
(***************************************************************************)
PIECE_VALUES == <<10, 30, 30, 50, 90, 0>>

WHITE_PAWN_VALUES ==
    << 0, 0, 0, 0, 0, 0, 0, 0,
       0, 0, 0, 0, 0, 0, 0, 0,
       0, 0, 1, 2, 2, 1, 0, 0,
       1, 1, 2, 3, 3, 2, 1, 1,
       2, 2, 3, 3, 3, 3, 2, 2,
       3, 3, 3, 3, 3, 3, 3, 3,
       4, 4, 4, 4, 4, 4, 4, 4,
       0, 0, 0, 0, 0, 0, 0, 0 >>

BLACK_PAWN_VALUES ==
    << 0, 0, 0, 0, 0, 0, 0, 0,
       4, 4, 4, 4, 4, 4, 4, 4,
       3, 3, 3, 3, 3, 3, 3, 3,
       2, 2, 3, 3, 3, 3, 2, 2,
       1, 1, 2, 3, 3, 2, 1, 1,
       0, 0, 1, 2, 2, 1, 0, 0,
       0, 0, 0, 0, 0, 0, 0, 0,
       0, 0, 0, 0, 0, 0, 0, 0 >>

KNIGHT_VALUES ==
    << 0, 1, 2, 2, 2, 2, 1, 0,
       1, 2, 3, 4, 4, 3, 2, 1,
       2, 3, 5, 5, 5, 5, 3, 2,
       2, 4, 5, 5, 5, 5, 4, 2,
       2, 4, 5, 5, 5, 5, 4, 2,
       2, 3, 5, 5, 5, 5, 3, 2,
       1, 2, 3, 4, 4, 3, 2, 1,
       0, 1, 2, 2, 2, 2, 1, 0 >>

BISHOP_VALUES ==
    << 0, 0, 0, 0, 0, 0, 0, 0,
       0, 3, 2, 2, 2, 2, 3, 0,
       0, 2, 3, 3, 3, 3, 2, 0,
       0, 2, 3, 4, 4, 3, 2, 0,
       0, 2, 3, 4, 4, 3, 2, 0,
       0, 2, 3, 3, 3, 3, 2, 0,
       0, 3, 2, 2, 2, 2, 3, 0,
       0, 0, 0, 0, 0, 0, 0, 0 >>

ALL_PIECES == <<"Pawn", "Knight", "Bishop", "Rook", "Queen", "King">>

Other(color) == IF color = "White" THEN "Black" ELSE "White"

piece_value(piece) == PIECE_VALUES[PieceIndex(piece)]

position_value_white_table(piece, color, square) ==
    CASE piece = "Pawn" -> WHITE_PAWN_VALUES[square + 1]
      [] piece = "Knight" -> KNIGHT_VALUES[square + 1]
      [] piece = "Bishop" -> BISHOP_VALUES[square + 1]
      [] piece = "Queen" -> BISHOP_VALUES[square + 1]
      [] OTHER -> 0

position_value(piece, color, square) ==
    CASE piece = "Pawn" -> IF color = "Black" THEN BLACK_PAWN_VALUES[square + 1]
                           ELSE WHITE_PAWN_VALUES[square + 1]
      [] piece = "Knight" -> KNIGHT_VALUES[square + 1]
      [] piece = "Bishop" -> BISHOP_VALUES[square + 1]
      [] piece = "Queen" -> BISHOP_VALUES[square + 1]
      [] OTHER -> 0

\* board.pieces(piece) & board.color_combined(color): the squares
squares_of(board, color, piece) ==
    {sq \in DOMAIN board.pieces : board.pieces[sq] = [color |-> color, piece |-> piece]}

\* the sum of position_value over a set of squares (one for loop of evaluate)
RECURSIVE position_values(_, _, _)
position_values(piece, color, squares) ==
    IF squares = {} THEN 0
    ELSE LET square == CHOOSE sq \in squares : TRUE
         IN  position_value(piece, color, square)
                 + position_values(piece, color, squares \ {square})

\* the Piece Values loop over ALL_PIECES[i..] (lines 119-125)
RECURSIVE material(_, _, _)
material(board, my_color, i) ==
    IF i > Len(ALL_PIECES) THEN 0
    ELSE piece_value(ALL_PIECES[i])
             * (Cardinality(squares_of(board, my_color, ALL_PIECES[i]))
                - Cardinality(squares_of(board, Other(my_color), ALL_PIECES[i])))
         + material(board, my_color, i + 1)

\* the two loops of one piece kind (mine added, theirs subtracted)
positional(board, my_color, piece) ==
    position_values(piece, my_color, squares_of(board, my_color, piece))
        - position_values(piece, Other(my_color), squares_of(board, Other(my_color), piece))

\* NaiveEvaluator::evaluate on an ongoing board (lines 109-158)
naive_evaluate(board) ==
    I16(material(board, board.side_to_move, 1)
        + positional(board, board.side_to_move, "Pawn")
        + positional(board, board.side_to_move, "Knight")
        + positional(board, board.side_to_move, "Bishop")
        + positional(board, board.side_to_move, "Queen"))

\* Board::default(): the initial position
BACK_RANK == <<"Rook", "Knight", "Bishop", "Queen", "King", "Bishop", "Knight", "Rook">>

BoardDefault ==
    [side_to_move |-> "White",
     pieces |-> [sq \in (0..15) \cup (48..63) |->
                    IF sq < 8 THEN [color |-> "White", piece |-> BACK_RANK[sq + 1]]
                    ELSE IF sq < 16 THEN [color |-> "White", piece |-> "Pawn"]
                    ELSE IF sq < 56 THEN [color |-> "Black", piece |-> "Pawn"]
                    ELSE [color |-> "Black", piece |-> BACK_RANK[sq - 55]]]]

\* Board::make_move_new for a move that is no castling, en passant or promotion
board_make_move_new(board, src, dst) ==
    [side_to_move |-> Other(board.side_to_move),
     pieces |-> [sq \in (DOMAIN board.pieces \ {src}) \cup {dst} |->
                    IF sq = dst THEN board.pieces[src] ELSE board.pieces[sq]]]

\* Opening moves: the piece on src goes to dst; `empty` are the squares
\* that must be empty, and a capture needs an opponent's piece on dst.
M(piece, src, dst, empty, capture) ==
    [piece |-> piece, src |-> src, dst |-> dst, empty |-> empty, capture |-> capture]

OpeningMoves ==
    { M("Pawn", 12, 28, {20, 28}, FALSE),  M("Pawn", 11, 27, {19, 27}, FALSE),
      M("Pawn", 8, 24, {16, 24}, FALSE),   M("Knight", 6, 21, {21}, FALSE),
      M("Knight", 1, 18, {18}, FALSE),     M("Bishop", 5, 26, {12, 19, 26}, FALSE),
      M("Pawn", 28, 35, {}, TRUE),         M("Pawn", 28, 36, {36}, FALSE),
      M("Pawn", 52, 36, {44, 36}, FALSE),  M("Pawn", 51, 35, {43, 35}, FALSE),
      M("Pawn", 48, 32, {40, 32}, FALSE),  M("Knight", 62, 45, {45}, FALSE),
      M("Knight", 57, 42, {42}, FALSE),    M("Pawn", 35, 28, {}, TRUE),
      M("Queen", 59, 35, {51, 43}, TRUE),  M("Knight", 45, 28, {}, TRUE) }

\* the move is playable on the board by the side to move
playable(board, m) ==
    /\ m.src \in DOMAIN board.pieces
    /\ board.pieces[m.src] = [color |-> board.side_to_move, piece |-> m.piece]
    /\ m.empty \cap DOMAIN board.pieces = {}
    /\ IF m.capture
       THEN m.dst \in DOMAIN board.pieces
            /\ board.pieces[m.dst].color = Other(board.side_to_move)
       ELSE m.dst \notin DOMAIN board.pieces

(***************************************************************************)
(* The evaluator on its own: the initial position is evaluated, and then   *)
(* the position after each of up to MaxHalfMoves opening moves.            *)
(***************************************************************************)
InitEval ==
    /\ agent = [depth |-> 1, tt |-> New(CacheCapacity), evaluator |-> BaseEval]
    /\ calls = <<>>
    /\ hist = <<>>
    /\ ret = [op |-> "evaluate", ply |-> 0, value |-> naive_evaluate(BoardDefault)]
    /\ search = None
    /\ stack = <<>>
    /\ chess_board = BoardDefault
    /\ threads = <<>>
    /\ stdin = <<>>
    /\ stdout = <<>>

\* board.make_move_new(chess_move) followed by evaluator.evaluate(&board)
Evaluate(m) ==
    /\ ret.ply < MaxHalfMoves
    /\ playable(chess_board, m)
    /\ chess_board' = board_make_move_new(chess_board, m.src, m.dst)
    /\ ret' = [op |-> "evaluate", ply |-> ret.ply + 1,
               value |-> naive_evaluate(board_make_move_new(chess_board, m.src, m.dst))]
    /\ UNCHANGED <<agent, calls, hist, search, stack, threads, stdin, stdout>>

NextEval == \E m \in OpeningMoves : Evaluate(m)

SpecEval == InitEval /\ [][NextEval]_vars

(***************************************************************************)
(* agent/cli.rs: CommandLineAgent::get_action.  A line of standard input   *)
(* is a sequence of characters (with its line end; the empty sequence is   *)
(* what read_line leaves at the end of the input).  `search` is the call   *)
(* in progress (the position and the side to move of the game), `ret` the  *)
(* Action returned.                                                        *)
(***************************************************************************)
FILES == <<"a", "b", "c", "d", "e", "f", "g", "h">>
RANKS == <<"1", "2", "3", "4", "5", "6", "7", "8">>

IndexOf(q, ch) == CHOOSE k \in DOMAIN q : q[k] = ch

is_whitespace(ch) == ch \in {" ", "\t", "\n", "\r"}

RECURSIVE trim_start(_)
trim_start(line) ==
    IF line # <<>> /\ is_whitespace(Head(line)) THEN trim_start(Tail(line)) ELSE line

RECURSIVE trim_end(_)
trim_end(line) ==
    IF line # <<>> /\ is_whitespace(line[Len(line)])
    THEN trim_end(SubSeq(line, 1, Len(line) - 1))
    ELSE line

trim_start_only(line) == trim_start(line)

\* str::trim
trim(line) == trim_end(trim_start(line))

\* Square::from_str on the two characters s[from], s[from + 1] (chess crate)
square_from_str(s, from) ==
    IF Len(s) < from + 1 THEN None
    ELSE IF s[from] \notin Range(FILES) \/ s[from + 1] \notin Range(RANKS) THEN None
    ELSE Some((IndexOf(RANKS, s[from + 1]) - 1) * 8 + (IndexOf(FILES, s[from]) - 1))

\* ChessMove::from_str (chess crate): source, destination, and a promotion
\* piece when the string has five characters; None stands for Err(_)
from_str(s) ==
    LET source == square_from_str(s, 1)
        dest == square_from_str(s, 3)
    IN  IF source = None \/ dest = None THEN None
        ELSE IF Len(s) = 5
        THEN CASE s[5] = "q" -> Some(ChessMove(source[1], dest[1], "Queen"))
               [] s[5] = "r" -> Some(ChessMove(source[1], dest[1], "Rook"))
               [] s[5] = "n" -> Some(ChessMove(source[1], dest[1], "Knight"))
               [] s[5] = "b" -> Some(ChessMove(source[1], dest[1], "Bishop"))
               [] OTHER -> None
        ELSE Some(ChessMove(source[1], dest[1], "None"))

Resign(color) == [kind |-> "Resign", color |-> color]

RESIGN == <<"r", "e", "s", "i", "g", "n">>

PROMPT == <<"Please enter move (Long algebraic notation) or enter 'resign' to resign",
            "Examples:  e2e4, e7e5, e1g1 (white short castling), e7e8q (for promotion)">>

\* the games get_action is called on: a position and its side to move
CliGames ==
    { [board |-> 1, side_to_move |-> "White"],
      [board |-> 2, side_to_move |-> "Black"],
      [board |-> 7, side_to_move |-> "White"] }

\* the lines typed
Lines ==
    { <<"r", "e", "s", "i", "g", "n", "\n">>,
      <<" ", "r", "e", "s", "i", "g", "n", " ", "\r", "\n">>,
      <<"R", "e", "s", "i", "g", "n", "\n">>,
      <<"e", "2", "e", "4", "\n">>,
      <<"e", "2", "e", "5", "\n">>,
      <<"e", "2", " ", "e", "4", "\n">>,
      <<"\t", "b", "1", "c", "3", "\n">>,
      <<"b", "8", "c", "6">>,
      <<"d", "8", "d", "2", "\n">>,
      <<"g", "4", "g", "7", "\n">>,
      <<"e", "7", "e", "8", "q", "\n">>,
      <<"e", "7", "e", "8", "k", "\n">>,
      <<"e", "2", "\n">>,
      <<"i", "9", "e", "4", "\n">>,
      <<"\n">>,
      <<>> }

InitCli ==
    /\ agent = [depth |-> 1, tt |-> New(CacheCapacity), evaluator |-> BaseEval]
    /\ calls = <<>>
    /\ hist = <<>>
    /\ ret = None
    /\ search \in {[board |-> g.board, side_to_move |-> g.side_to_move, done |-> FALSE] :
                      g \in CliGames}
    /\ stack = <<>>
    /\ chess_board = None
    /\ threads = <<>>
    /\ stdin = <<>>
    /\ stdout = <<>>

\* one turn of the loop (lines 15-40): prompt, read a line, match it
ReadLine(line) ==
    /\ ~search.done
    /\ Len(stdin) < MaxLines
    /\ stdin' = Append(stdin, line)
    /\ LET uci_move == trim(line)
           uci == from_str(uci_move)
       IN  IF uci_move = RESIGN
           THEN /\ ret' = Some(Resign(search.side_to_move))
                /\ search' = [search EXCEPT !.done = TRUE]
                /\ stdout' = stdout \o PROMPT
           ELSE IF uci # None
           THEN IF legal(search.board, uci[1])
                THEN /\ ret' = Some(MakeMove(uci[1]))
                     /\ search' = [search EXCEPT !.done = TRUE]
                     /\ stdout' = stdout \o PROMPT
                ELSE /\ stdout' = stdout \o PROMPT \o <<"Illegal Move for current position">>
                     /\ UNCHANGED <<ret, search>>
           ELSE /\ stdout' = stdout \o PROMPT \o <<"Failed to parse move format">>
                /\ UNCHANGED <<ret, search>>
    /\ UNCHANGED <<agent, calls, hist, stack, chess_board, threads>>

NextCli == \E line \in Lines : ReadLine(line)

SpecCli == InitCli /\ [][NextCli]_vars

(***************************************************************************)
(* The move hash on its own: get_hash of every move the chess crate can    *)
(* build from two squares and an optional promotion piece, and get_move of *)
(* every index of MOVE_HASH; one call is made, on any of these inputs.     *)
(***************************************************************************)
ALL_SQUARES == 0..63

AllMoves ==
    {ChessMove(src, dst, promo) :
        src \in ALL_SQUARES, dst \in ALL_SQUARES, promo \in {"None"} \cup Range(PROMOTION_PIECES)}

\* move_hash::get_hash(chess_move)
GetHash(chess_move) ==
    /\ ret = None
    /\ ret' = [op |-> "get_hash", arg |-> chess_move, value |-> get_hash(chess_move)]
    /\ UNCHANGED <<agent, calls, hist, search, stack, chess_board, threads, stdin, stdout>>

\* move_hash::get_move(hash)
GetMove(hash) ==
    /\ ret = None
    /\ ret' = [op |-> "get_move", arg |-> hash, value |-> get_move(hash)]
    /\ UNCHANGED <<agent, calls, hist, search, stack, chess_board, threads, stdin, stdout>>

\* the inputs of the one call: none is left once the call has been made
Arguments(S) == IF ret = None THEN S ELSE {}

NextMoveHash ==
    \/ \E chess_move \in Arguments(AllMoves) : GetHash(chess_move)
    \/ \E hash \in Arguments(0..(HASH_SIZE - 1)) : GetMove(hash)

SpecMoveHash == InitTT /\ [][NextMoveHash]_vars

(***************************************************************************)
(* The quiescence search on its own: one q_search call on a position of    *)
(* GameGraph with a window alpha < beta of scores the search passes down   *)
(* (alpha_beta starts from (MIN, MAX) and only moves the bounds to scores  *)
(* and their negations).  `ret` is the call and the value it returned.     *)
(***************************************************************************)
WindowScores == {MIN, MIN + 1, -10, -1, 0, 1, 10, MAX - 1, MAX}

Windows == {w \in [alpha : WindowScores, beta : WindowScores] : w.alpha < w.beta}

InitQSearch ==
    /\ agent \in [depth : {1}, tt : {New(CacheCapacity)}, evaluator : Evaluators]
    /\ calls = <<>>
    /\ hist = <<>>
    /\ ret = None
    /\ search = None
    /\ stack = <<>>
    /\ chess_board = None
    /\ threads = <<>>
    /\ stdin = <<>>
    /\ stdout = <<>>

\* Self::q_search(evaluator, board, alpha, beta)
QSearch(board, w) ==
    /\ ret = None
    /\ ret' = [op |-> "q_search", board |-> board, alpha |-> w.alpha, beta |-> w.beta,
               value |-> q_search(agent.evaluator, board, w.alpha, w.beta)]
    /\ UNCHANGED <<agent, calls, hist, search, stack, chess_board, threads, stdin, stdout>>

NextQSearch == \E board \in Arguments(Positions), w \in Arguments(Windows) : QSearch(board, w)

SpecQSearch == InitQSearch /\ [][NextQSearch]_vars

(***************************************************************************)
(* The move ordering on its own: one sorted_moves or sorted_captures call  *)
(* on a position of GameGraph; the hint of sorted_moves is absent, a legal *)
(* move or a move that is not legal in the position.                       *)
(***************************************************************************)
Hints(board) == {None, Some(E2E4), Some(E7E8Q)} \cup {Some(m) : m \in Range(legal_moves(board))}

InitSort ==
    /\ agent = [depth |-> 1, tt |-> New(CacheCapacity), evaluator |-> BaseEval]
    /\ calls = <<>>
    /\ hist = <<>>
    /\ ret = None
    /\ search = None
    /\ stack = <<>>
    /\ chess_board = None
    /\ threads = <<>>
    /\ stdin = <<>>
    /\ stdout = <<>>

\* MOVE_SORTER.sorted_moves(board, best_move)
SortedMoves(board, hint) ==
    /\ ret = None
    /\ ret' = [op |-> "sorted_moves", board |-> board, hint |-> hint,
               value |-> sorted_moves(board, hint)]
    /\ UNCHANGED <<agent, calls, hist, search, stack, chess_board, threads, stdin, stdout>>

\* MOVE_SORTER.sorted_captures(board)
SortedCapturesOf(board) ==
    /\ ret = None
    /\ ret' = [op |-> "sorted_captures", board |-> board, hint |-> None,
               value |-> sorted_captures(board)]
    /\ UNCHANGED <<agent, calls, hist, search, stack, chess_board, threads, stdin, stdout>>

NextSort ==
    \/ \E board \in Arguments(Positions) : \E hint \in Hints(board) : SortedMoves(board, hint)
    \/ \E board \in Arguments(Positions) : SortedCapturesOf(board)

SpecSort == InitSort /\ [][NextSort]_vars

(***************************************************************************)
(* The call structure of one get_action call (ab.rs): the stack of nested  *)
(* alpha_beta, null_alpha_beta and q_search calls.  Scores and table        *)
(* contents are left open here: every return the code can take on some     *)
(* score or table content (an Exact hit, a cutoff, a re-search) is a step   *)
(* the stack may take.  A frame holds the call's arguments (board, the      *)
(* depth it was called with), the depth and flag after check_extension,     *)
(* the move list it iterates and the index of the move being searched.      *)
(***************************************************************************)
Frame(fn, board, called_depth, x, stage, moves) ==
    [fn |-> fn, board |-> board, called_depth |-> called_depth, depth |-> x.depth,
     check_extension_enabled |-> x.check_extension_enabled,
     extended |-> x.depth # called_depth,
     stage |-> stage, moves |-> moves, i |-> 1, again |-> FALSE]

\* entry of alpha_beta: check_extension runs first (line 252)
AlphaBetaFrame(board, depth, check_extension_enabled) ==
    Frame("alpha_beta", board, depth,
          check_extension(board, depth, check_extension_enabled), "enter", <<>>)

\* entry of null_alpha_beta: a leaf at depth 0, else the loop over sorted_moves
NullAlphaBetaFrame(board, depth) ==
    Frame("null_alpha_beta", board, depth,
          [depth |-> depth, check_extension_enabled |-> FALSE],
          IF depth = 0 THEN "leaf" ELSE "loop",
          IF depth = 0 THEN <<>> ELSE sorted_moves(board, None))

\* entry of q_search: the loop over sorted_captures
QSearchFrame(board) ==
    Frame("q_search", board, 0, [depth |-> 0, check_extension_enabled |-> FALSE],
          "loop", sorted_captures(board))

Top == stack[Len(stack)]
Pop == SubSeq(stack, 1, Len(stack) - 1)
\* the caller's frame is changed and the callee's frame pushed
Call(caller, callee) == stack' = Append(Append(Pop, caller), callee)

InitSearch ==
    /\ agent \in [depth : 1..MaxPly, tt : {New(CacheCapacity)}, evaluator : {BaseEval}]
    /\ calls = <<>>
    /\ hist = <<>>
    /\ ret = None
    /\ search = None
    /\ stack = <<>>
    /\ chess_board = None
    /\ threads = <<>>
    /\ stdin = <<>>
    /\ stdout = <<>>

\* get_action is entered (lines 297-299)
BeginGetAction(board) ==
    /\ search = None
    /\ search' = [board |-> board, i |-> 1, done |-> FALSE]
    /\ UNCHANGED <<agent, calls, hist, ret, stack, chess_board, threads, stdin, stdout>>

\* for i in 1..=self.depth: alpha_beta(root, i, alpha, beta, true) (lines 301-311)
Iterate ==
    /\ search # None /\ ~search.done
    /\ stack = <<>>
    /\ search.i <= agent.depth
    /\ stack' = <<AlphaBetaFrame(search.board, search.i, TRUE)>>
    /\ search' = [search EXCEPT !.i = @ + 1]
    /\ UNCHANGED <<agent, calls, hist, ret, chess_board, threads, stdin, stdout>>

\* the loop is over: get_action returns (lines 314-316)
EndGetAction ==
    /\ search # None /\ ~search.done
    /\ stack = <<>>
    /\ search.i > agent.depth
    /\ search' = [search EXCEPT !.done = TRUE]
    /\ UNCHANGED <<agent, calls, hist, ret, stack, chess_board, threads, stdin, stdout>>

\* alpha_beta at depth 0 on an ongoing position calls q_search (lines 265-266)
Horizon ==
    /\ stack # <<>>
    /\ Top.fn = "alpha_beta" /\ Top.stage = "enter"
    /\ status(Top.board) = "Ongoing"
    /\ Top.depth = 0
    /\ Call([Top EXCEPT !.stage = "horizon"], QSearchFrame(Top.board))
    /\ UNCHANGED <<agent, calls, hist, ret, search, chess_board, threads, stdin, stdout>>

\* alpha_beta at depth >= 3 tries the null move (lines 271-274)
AttemptsNullMove(f) ==
    f.fn = "alpha_beta" /\ status(f.board) = "Ongoing" /\ f.depth >= 3
        /\ null_move(f.board) # None

NullMove ==
    /\ stack # <<>>
    /\ Top.stage = "enter"
    /\ AttemptsNullMove(Top)
    /\ Call([Top EXCEPT !.stage = "null"],
            NullAlphaBetaFrame(null_move(Top.board)[1], Top.depth - 3))
    /\ UNCHANGED <<agent, calls, hist, ret, search, chess_board, threads, stdin, stdout>>

\* principal_variation_search begins: expand(tt, board) (line 201); the hint
\* is whatever the table holds for the position
Expand ==
    /\ stack # <<>>
    /\ Top.fn = "alpha_beta"
    /\ status(Top.board) = "Ongoing"
    /\ \/ Top.stage = "enter" /\ Top.depth >= 1 /\ ~AttemptsNullMove(Top)
       \/ Top.stage = "null"
    /\ \E hint \in {None} \cup {Some(m) : m \in Range(legal_moves(Top.board))} :
           stack' = Append(Pop, [Top EXCEPT !.stage = "loop",
                                           !.moves = sorted_moves(Top.board, hint)])
    /\ UNCHANGED <<agent, calls, hist, ret, search, chess_board, threads, stdin, stdout>>

\* the call a frame makes for its move number i
Child(f) ==
    LET board == make_move_new(f.board, f.moves[f.i])
    IN  CASE f.fn = "alpha_beta" ->
                 AlphaBetaFrame(board, f.depth - 1, f.check_extension_enabled)
          [] f.fn = "null_alpha_beta" -> NullAlphaBetaFrame(board, f.depth - 1)
          [] f.fn = "q_search" -> QSearchFrame(board)

\* the loop body makes its recursive call for the next move
Descend ==
    /\ stack # <<>>
    /\ Top.stage = "loop"
    /\ Top.i <= Len(Top.moves)
    /\ Call([Top EXCEPT !.stage = "back"], Child(Top))
    /\ UNCHANGED <<agent, calls, hist, ret, search, chess_board, threads, stdin, stdout>>

\* null_window_search searches the same child again with the full window
\* (lines 177-186): moves after the first one, once
ReSearch ==
    /\ stack # <<>>
    /\ Top.fn = "alpha_beta" /\ Top.stage = "back"
    /\ Top.i > 1 /\ ~Top.again
    /\ Call([Top EXCEPT !.again = TRUE], Child(Top))
    /\ UNCHANGED <<agent, calls, hist, ret, search, chess_board, threads, stdin, stdout>>

\* the loop goes on to the next move
Advance ==
    /\ stack # <<>>
    /\ Top.stage = "back"
    /\ Top.i < Len(Top.moves)
    /\ stack' = Append(Pop, [Top EXCEPT !.stage = "loop", !.i = @ + 1, !.again = FALSE])
    /\ UNCHANGED <<agent, calls, hist, ret, search, chess_board, threads, stdin, stdout>>

\* the places a call returns from
Returns(f) ==
    CASE f.fn = "alpha_beta" ->
             \/ f.stage = "enter"      \* an Exact hit (258), a terminal position (262)
             \/ f.stage = "horizon"    \* after q_search (268)
             \/ f.stage = "null"       \* the null-move cutoff (276)
             \/ f.stage = "back"       \* a cutoff or the end of the move loop (292)
      [] f.fn = "null_alpha_beta" ->
             \/ f.stage = "leaf"                           \* depth 0 (136)
             \/ f.stage = "loop" /\ f.moves = <<>>         \* no move (153)
             \/ f.stage = "back"                           \* cutoff or end of loop
      [] f.fn = "q_search" ->
             \/ f.stage = "loop" /\ f.i = 1                \* stand-pat (106), no capture
             \/ f.stage = "back"                           \* cutoff or end of loop

Return ==
    /\ stack # <<>>
    /\ Returns(Top)
    /\ stack' = Pop
    /\ UNCHANGED <<agent, calls, hist, ret, search, chess_board, threads, stdin, stdout>>

\* the positions get_action is called on
SearchRoots == {3, 6, 14}

NextSearch ==
    \/ \E board \in SearchRoots : BeginGetAction(board)
    \/ Iterate
    \/ EndGetAction
    \/ Horizon
    \/ NullMove
    \/ Expand
    \/ Descend
    \/ ReSearch
    \/ Advance
    \/ Return

SpecSearch == InitSearch /\ [][NextSearch]_vars

\* the program keeps running until get_action has returned
SpecSearchFair == SpecSearch /\ WF_vars(NextSearch)

(***************************************************************************)
(* Reference definitions used by the properties.                           *)
(***************************************************************************)
\* the buckets of the table
Buckets ==
    {agent.tt.deep_cache[i] : i \in DOMAIN agent.tt.deep_cache}
        \cup {agent.tt.shallow_cache[i] : i \in DOMAIN agent.tt.shallow_cache}

Max2(a, b) == IF a >= b THEN a ELSE b

RECURSIVE SeqMax(_)
SeqMax(q) == IF Len(q) = 1 THEN q[1] ELSE Max2(q[1], SeqMax(Tail(q)))

\* plain negamax of depth d, quiescence with the full window at the leaves
RECURSIVE negamax(_, _, _)
negamax(evaluator, board, d) ==
    IF status(board) # "Ongoing" THEN evaluate(evaluator, board)
    ELSE IF d = 0 THEN q_search(evaluator, board, MIN, MAX)
    ELSE SeqMax([i \in DOMAIN legal_moves(board) |->
                    0 - negamax(evaluator, make_move_new(board, legal_moves(board)[i]), d - 1)])

\* the positions at most d plies below board
RECURSIVE Within(_, _)
Within(board, d) ==
    IF d = 0 THEN {board}
    ELSE {board} \cup UNION {Within(make_move_new(board, legal_moves(board)[i]), d - 1) :
                                i \in DOMAIN legal_moves(board)}

\* a search of depth d from board meets no check extension and no null move
PlainSearch(board, d) ==
    /\ d < 3
    /\ \A b \in Within(board, d) : status(b) = "Ongoing" => ~in_check(b)

\* C1: in every get_action call whose search meets neither a check extension
\* nor a null-move search, the score alpha_beta returns for the root at
\* iteration d is the depth-d negamax score of the root.
C1_SearchSoundness ==
    \A k \in DOMAIN calls :
        \A d \in DOMAIN calls[k].scores :
            PlainSearch(calls[k].board, d) =>
                calls[k].scores[d] = negamax(agent.evaluator, calls[k].board, d)

\* the root has a legal move and get_action returned MakeMove of a legal move
ReturnsLegalMove(call) ==
    /\ call.action.kind = "MakeMove"
    /\ legal(call.board, call.action.chess_move)

\* C2: every get_action call on a position with a legal move returns
\* MakeMove of a move that is legal in that position, whatever the table
\* held for the root when the call began.
C2_ReturnsLegalMove ==
    \A k \in DOMAIN calls :
        status(calls[k].board) = "Ongoing" => ReturnsLegalMove(calls[k])

\* C2 witness: a call that began with a table hint for the root that is not
\* legal in the root, and returned a legal move.
C2_Witness ==
    \E k \in DOMAIN calls :
        /\ calls[k].hint # None
        /\ ~legal(calls[k].board, calls[k].hint[1])
        /\ ReturnsLegalMove(calls[k])

Mates(board, chess_move) ==
    legal(board, chess_move) /\ status(make_move_new(board, chess_move)) = "Checkmate"

HasMateInOne(board) ==
    \E i \in DOMAIN legal_moves(board) : Mates(board, legal_moves(board)[i])

\* C3: a get_action call that starts from a fresh table on a position with a
\* mating move returns a mating move.
C3_MateInOne ==
    (Len(calls) >= 1 /\ HasMateInOne(calls[1].board)) =>
        /\ calls[1].action.kind = "MakeMove"
        /\ Mates(calls[1].board, calls[1].action.chess_move)

\* C5: a get_action call on the position of the call before it returns the
\* action that call returned.
C5_Replay ==
    \A k \in DOMAIN calls :
        (k > 1 /\ calls[k].board = calls[k - 1].board) =>
            calls[k].action = calls[k - 1].action

(***************************************************************************)
(* Properties of the alpha_beta calls of a search (Spec).                  *)
(***************************************************************************)
\* the node r stored is of the class its value has in the window (alpha_orig, beta)
ClassInWindow(r) ==
    LET node == r.node[1]
    IN  CASE node.kind = "Principal" -> r.alpha_orig < node.value /\ node.value < r.beta
          [] node.kind = "Cut" -> node.value >= r.beta
          [] node.kind = "All" -> node.value <= r.alpha_orig

\* C13: every node an alpha_beta call stores, after the move loop or at the
\* horizon, is of the class its value has in the call's window: Principal
\* strictly inside (alpha_orig, beta), Cut at or above beta, All at or below
\* alpha_orig.
C13_NodeClass ==
    \A k \in DOMAIN calls :
        \A j \in DOMAIN calls[k].log :
            calls[k].log[j].node # None => ClassInWindow(calls[k].log[j])

\* the call r found an entry of the given class and of sufficient depth
Usable(r, kind) ==
    r.probe # None /\ r.probe[1][2] >= r.depth /\ r.probe[1][1].kind = kind

\* C22: an entry stored as a cut node (its value v was >= beta: a lower bound)
\* is used by a probe of sufficient depth only to raise alpha to max(alpha, v),
\* and an entry stored as an all node (v <= alpha_orig: an upper bound) only
\* to lower beta to min(beta, v).
C22_BoundUsage ==
    \A k \in DOMAIN calls :
        \A j \in DOMAIN calls[k].log :
            LET r == calls[k].log[j]
            IN  /\ Usable(r, "Cut") =>
                       /\ r.alpha = Max2(r.alpha_orig, r.probe[1][1].value)
                       /\ r.beta = r.beta_orig
                /\ Usable(r, "All") =>
                       /\ r.beta = (IF r.beta_orig <= r.probe[1][1].value
                                    THEN r.beta_orig ELSE r.probe[1][1].value)
                       /\ r.alpha = r.alpha_orig

\* C23: when a probe hit of sufficient depth tightens the window of an
\* alpha_beta call so that alpha >= beta, the call returns the stored value
\* at once: it leaves by the return of the probe step, before the terminal
\* test, the null-move search, the move generation and every child search.
C23_WindowCutoff ==
    \A k \in DOMAIN calls :
        \A j \in DOMAIN calls[k].log :
            LET r == calls[k].log[j]
            IN  (/\ Usable(r, "Cut") \/ Usable(r, "All")
                 /\ r.alpha_orig < r.beta_orig
                 /\ r.alpha >= r.beta)
                    => r.exit = "hit" /\ r.value = r.probe[1][1].value

\* C24: the alpha against which the value of an alpha_beta call is classified
\* for the store after the move loop is the alpha after the tightening by the
\* probe, not the alpha the call was entered with.
C24_ClassificationBaseline ==
    \A k \in DOMAIN calls :
        \A j \in DOMAIN calls[k].log :
            LET r == calls[k].log[j]
            IN  r.exit = "pvs" => r.node = Some(node_of(r.alpha, r.beta, r.value))

\* C25: the probe influences an alpha_beta call only when the stored depth
\* is >= the depth of the call after the check extension: then a Principal
\* (exact) entry's value is returned at once; a hit of smaller stored depth,
\* like a miss, changes neither alpha nor beta and is not returned.
C25_DepthGate ==
    \A k \in DOMAIN calls :
        \A j \in DOMAIN calls[k].log :
            LET r == calls[k].log[j]
            IN  /\ Usable(r, "Principal") => r.exit = "hit" /\ r.value = r.probe[1][1].value
                /\ r.exit = "hit" => Usable(r, "Principal")
                /\ (r.probe = None \/ r.probe[1][2] < r.depth) =>
                       r.alpha = r.alpha_orig /\ r.beta = r.beta_orig

\* C25 witness: one get_action call in which an exact entry of sufficient
\* depth was returned and entries of smaller depth, an exact one and a
\* bound, were passed over.
C25_Witness ==
    \E k \in DOMAIN calls :
        /\ \E j \in DOMAIN calls[k].log : calls[k].log[j].exit = "hit"
        /\ \E j \in DOMAIN calls[k].log :
               LET r == calls[k].log[j]
               IN  r.probe # None /\ r.probe[1][2] < r.depth
                       /\ r.probe[1][1].kind = "Principal" /\ r.exit = "pvs"
        /\ \E j \in DOMAIN calls[k].log :
               LET r == calls[k].log[j]
               IN  r.probe # None /\ r.probe[1][2] < r.depth
                       /\ r.probe[1][1].kind # "Principal"

InRange(v) == MIN <= v /\ v <= MAX

\* x is an i16: computing it does not wrap
Fits(x) == I16(x) = x

\* the call r reached the null-move search (lines 271-274)
NullAttempt(r) ==
    r.exit \in {"null", "pvs"} /\ r.depth >= 3 /\ null_move(r.board) # None

\* the score of the null-move search r made (lines 273-274)
NullScore(r) ==
    Neg(null_alpha_beta(agent.evaluator, null_move(r.board)[1], r.depth - 3,
                        Neg(r.beta), I16(Neg(r.beta) + 1)))

\* C27: the null-move search is attempted only at a depth (after the check
\* extension) >= 3 with the side to move not in check; it searches the
\* null-moved position at depth - 3 with the window (-beta, -beta + 1);
\* alpha_beta returns exactly beta when the negated result is >= beta, and
\* otherwise goes on to the principal-variation search with alpha and beta
\* as they were.
C27_NullMovePruning ==
    \A k \in DOMAIN calls :
        \A j \in DOMAIN calls[k].log :
            LET r == calls[k].log[j]
            IN  /\ r.exit = "null" =>
                       /\ r.depth >= 3 /\ ~in_check(r.board)
                       /\ NullScore(r) >= r.beta
                       /\ r.value = r.beta
                /\ (r.exit = "pvs" /\ r.depth >= 3 /\ ~in_check(r.board)) =>
                       NullScore(r) < r.beta

\* C27 witness: one search with a null-move cutoff, a null-move search that
\* gave no cutoff, and a call at depth >= 3 in check, which made none.
C27_Witness ==
    \E k \in DOMAIN calls :
        /\ \E j \in DOMAIN calls[k].log : calls[k].log[j].exit = "null"
        /\ \E j \in DOMAIN calls[k].log :
               LET r == calls[k].log[j]
               IN  r.exit = "pvs" /\ r.depth >= 3 /\ ~in_check(r.board)
        /\ \E j \in DOMAIN calls[k].log :
               LET r == calls[k].log[j]
               IN  r.exit = "pvs" /\ r.depth >= 3 /\ in_check(r.board)

\* a null-move search whose leaves are resolved by the quiescence search
RECURSIVE QuiescentNullSearch(_, _, _, _, _)
RECURSIVE QuiescentNullLoop(_, _, _, _, _, _, _)
QuiescentNullLoop(evaluator, board, depth, moves, i, alpha, beta) ==
    IF i > Len(moves) THEN alpha
    ELSE LET val == Neg(QuiescentNullSearch(evaluator, make_move_new(board, moves[i]),
                                            depth - 1, Neg(beta), Neg(alpha)))
         IN  IF val >= beta THEN beta
             ELSE QuiescentNullLoop(evaluator, board, depth, moves, i + 1,
                                    Max2(alpha, val), beta)

QuiescentNullSearch(evaluator, board, depth, alpha, beta) ==
    IF depth = 0 THEN q_search(evaluator, board, alpha, beta)
    ELSE QuiescentNullLoop(evaluator, board, depth, sorted_moves(board, None), 1,
                           alpha, beta)

\* C28: null_alpha_beta resolves the positions at its remaining depth 0 with
\* the quiescence search of the same evaluator, as alpha_beta does at its
\* horizon: the score of every null-move search made is the score of the
\* search whose leaves are q_search values.
C28_NullSearchLeaf ==
    \A k \in DOMAIN calls :
        \A j \in DOMAIN calls[k].log :
            LET r == calls[k].log[j]
            IN  NullAttempt(r) =>
                    NullScore(r) = Neg(QuiescentNullSearch(
                                           agent.evaluator, null_move(r.board)[1],
                                           r.depth - 3, Neg(r.beta), I16(Neg(r.beta) + 1)))

\* C29: an alpha_beta call whose depth after the check extension is 0, on
\* an ongoing position and without an exact entry returned, returns
\* q_search(pos, alpha, beta) and stores it at depth 0; it is the only kind of
\* call that does.  The calls that search moves have depth >= 1 and those
\* that try the null move depth >= 3, so depth - 1 and depth - 3 never go
\* below 0, and every depth is a u8.
C29_Horizon ==
    \A k \in DOMAIN calls :
        \A j \in DOMAIN calls[k].log :
            LET r == calls[k].log[j]
            IN  /\ r.depth \in 0..255
                /\ r.exit = "horizon" <=>
                       /\ r.depth = 0
                       /\ status(r.board) = "Ongoing"
                       /\ ~Usable(r, "Principal")
                /\ r.exit = "horizon" =>
                       /\ r.value = q_search(agent.evaluator, r.board, r.alpha, r.beta)
                       /\ r.node = Some(pv_node(r.value))
                       /\ r.bm = None
                /\ r.exit = "pvs" => r.depth - 1 >= 0
                /\ r.exit = "null" => r.depth - 3 >= 0
                /\ NullAttempt(r) => r.depth - 3 >= 0

\* C29 witness: a horizon call whose quiescence value is not the static
\* evaluation, in a search that also made calls of depth 1 and of depth 3.
C29_Witness ==
    \E k \in DOMAIN calls :
        /\ \E j \in DOMAIN calls[k].log :
               LET r == calls[k].log[j]
               IN  r.exit = "horizon" /\ r.value # evaluate(agent.evaluator, r.board)
        /\ \E j \in DOMAIN calls[k].log :
               calls[k].log[j].exit = "pvs" /\ calls[k].log[j].depth = 1
        /\ \E j \in DOMAIN calls[k].log :
               NullAttempt(calls[k].log[j]) /\ calls[k].log[j].depth = 3

\* the step n of the principal-variation search of the call L[j] follows the
\* protocol: the window of the first search, the re-search, the new alpha
\* and best move
PvsStep(L, j, n) ==
    LET r == L[j]
        t == r.steps
        a == IF n = 1 THEN r.alpha ELSE t[n - 1].alpha2
        child == make_move_new(r.board, r.moves[n])
        first == L[t[n].first]
        s == Neg(first.value)
    IN  /\ t[n].i = n /\ t[n].alpha = a
        /\ t[n].first \in 1..(j - 1)
        /\ first.board = child
        /\ first.beta_orig = Neg(a)
        /\ first.alpha_orig = IF n = 1 THEN Neg(r.beta) ELSE I16(Neg(a) - 1)
        /\ t[n].again # 0 <=> (n > 1 /\ a < s /\ s < r.beta)
        /\ IF t[n].again # 0
           THEN /\ t[n].again \in (t[n].first + 1)..(j - 1)
                /\ L[t[n].again].board = child
                /\ L[t[n].again].alpha_orig = Neg(r.beta)
                /\ L[t[n].again].beta_orig = Neg(a)
                /\ t[n].value = Neg(L[t[n].again].value)
           ELSE t[n].value = s
        /\ t[n].alpha2 = (IF t[n].value > a THEN t[n].value ELSE a)
        /\ t[n].best_move = (IF n = 1 THEN r.moves[1]
                             ELSE IF t[n].value > a THEN r.moves[n]
                             ELSE t[n - 1].best_move)
        /\ n < Len(t) => t[n].alpha2 < r.beta

\* C31: in principal_variation_search the first ordered move is searched
\* with the window (-beta, -alpha); every later move is searched first with
\* (-alpha - 1, -alpha) and searched again with (-beta, -alpha) exactly when
\* its score s has alpha < s < beta; a move replaces alpha and the best move
\* exactly when its final score is above the current alpha (the best move
\* stays moves[0] when none is); the moves are taken in order and none is
\* searched once alpha >= beta; the call returns the last alpha and best move.
C31_PvsProtocol ==
    \A k \in DOMAIN calls :
        \A j \in DOMAIN calls[k].log :
            LET r == calls[k].log[j]
            IN  IF r.exit = "pvs"
                THEN /\ r.moves # <<>>
                     /\ Len(r.steps) \in 1..Len(r.moves)
                     /\ \A n \in DOMAIN r.steps : PvsStep(calls[k].log, j, n)
                     /\ Len(r.steps) < Len(r.moves) => r.steps[Len(r.steps)].alpha2 >= r.beta
                     /\ r.value = r.steps[Len(r.steps)].alpha2
                     /\ r.bm = Some(r.steps[Len(r.steps)].best_move)
                ELSE r.steps = <<>>

\* C31 witness: one search in which a later move was searched again with
\* the full window and became the best move, a later move was not searched
\* again because its score was >= beta, and a move loop stopped before its
\* last move.
C31_Witness ==
    \E k \in DOMAIN calls :
        LET L == calls[k].log
        IN  /\ \E j \in DOMAIN L : \E n \in DOMAIN L[j].steps :
                   /\ L[j].steps[n].again # 0
                   /\ L[j].steps[n].best_move = L[j].moves[n]
                   /\ n > 1
            /\ \E j \in DOMAIN L : \E n \in DOMAIN L[j].steps :
                   /\ n > 1
                   /\ L[j].steps[n].again = 0
                   /\ L[j].steps[n].value >= L[j].beta
            /\ \E j \in DOMAIN L :
                   L[j].exit = "pvs" /\ Len(L[j].steps) < Len(L[j].moves)

\* the alpha_beta calls made by the principal-variation search of the call
\* r, as places in the log, in the order they were made
RECURSIVE ChildCalls(_, _)
ChildCalls(r, n) ==
    IF n > Len(r.steps) THEN <<>>
    ELSE (IF r.steps[n].again # 0 THEN <<r.steps[n].first, r.steps[n].again>>
          ELSE <<r.steps[n].first>>) \o ChildCalls(r, n + 1)

\* C32: an alpha_beta call that completes the principal-variation search
\* makes exactly one store, after the calls for its moves: the position's
\* key, the depth after the check extension, the node of the value and the
\* best move of the search.  A call that returns from the horizon makes
\* exactly one store: the key, depth 0, the quiescence value as a Principal
\* node and no move.  A call that returns an exact entry, the evaluation of
\* a terminal position or the null-move cutoff makes no store.  Nothing else
\* stores: between the calls for the moves of a search, and in the
\* null-move search before them, the table gets no store.
C32_StoresPerCall ==
    \A k \in DOMAIN calls :
        \A j \in DOMAIN calls[k].log :
            LET L == calls[k].log
                S == calls[k].stores
                r == L[j]
                kids == ChildCalls(r, 1)
            IN  CASE r.exit \in {"hit", "terminal", "null"} ->
                         r.stores_out = r.stores_in
                  [] r.exit = "horizon" ->
                         /\ r.stores_out = r.stores_in + 1
                         /\ S[r.stores_out] = [hash |-> position_hash(r.board), depth |-> 0,
                                               node |-> pv_node(r.value), bm |-> None]
                  [] r.exit = "pvs" ->
                         /\ L[kids[1]].stores_in = r.stores_in
                         /\ \A n \in 2..Len(kids) :
                                L[kids[n]].stores_in = L[kids[n - 1]].stores_out
                         /\ r.stores_out = L[kids[Len(kids)]].stores_out + 1
                         /\ S[r.stores_out].hash = position_hash(r.board)
                         /\ S[r.stores_out].depth = r.depth
                         /\ S[r.stores_out].node.value = r.value
                         /\ S[r.stores_out].bm = Some(r.steps[Len(r.steps)].best_move)

\* C32 witness: a search with calls of every kind (an exact entry, a
\* terminal position, the horizon, a null-move cutoff, a completed search
\* after a null-move search that did not cut off), in which a store was made.
C32_Witness ==
    \E k \in DOMAIN calls :
        /\ \A exit \in {"hit", "terminal", "horizon", "null", "pvs"} :
               \E j \in DOMAIN calls[k].log : calls[k].log[j].exit = exit
        /\ \E j \in DOMAIN calls[k].log :
               /\ calls[k].log[j].exit = "pvs"
               /\ NullAttempt(calls[k].log[j])
        /\ calls[k].stores # <<>>

\* the places in the log L of the alpha_beta calls made by get_action
\* itself: those that no other call made
RootCalls(L) == DOMAIN L \ UNION {Range(ChildCalls(L[i], 1)) : i \in DOMAIN L}

\* the table after the stores S[n..] have been made on the table tt
RECURSIVE Replay(_, _, _)
Replay(tt, S, n) ==
    IF n > Len(S) THEN tt
    ELSE Replay(update_evaluation_and_best_move(tt, S[n].hash, S[n].depth, S[n].node, S[n].bm),
                S, n + 1)

Caches(tt) == <<tt.deep_cache, tt.shallow_cache>>

\* the table after the get_action call number k
TableAfter(k) == IF k < Len(calls) THEN calls[k + 1].before ELSE agent.tt

\* C33: get_action calls alpha_beta on the root once for each depth 1, 2,
\* ..., self.depth, in increasing order, each with the window
\* (min_value, max_value) and check_extension_enabled = true.  The calls
\* work on one table that is never cleared: each iteration starts with the
\* stores of the iteration before, the first with the table the call before
\* left, and the table afterwards is the table before with the stores of
\* the search made on it in order.  On a root that has a legal move
\* get_action then returns MakeMove of the first element of
\* sorted_moves(root, tt.best_move(root)).
C33_IterativeDeepening ==
    \A k \in DOMAIN calls :
        LET L == calls[k].log
            root == calls[k].board
            ext == IF in_check(root) THEN 1 ELSE 0
            Called(d) == {j \in RootCalls(L) : L[j].depth = d + ext}
        IN  /\ Cardinality(RootCalls(L)) = agent.depth
            /\ Len(calls[k].scores) = agent.depth
            /\ \A d \in 1..agent.depth :
                   /\ Cardinality(Called(d)) = 1
                   /\ \A j \in Called(d) :
                          /\ L[j].board = root
                          /\ L[j].alpha_orig = min_value /\ L[j].beta_orig = max_value
                          /\ L[j].check_extension_enabled = ~in_check(root)
                          /\ L[j].value = calls[k].scores[d]
                          /\ L[j].stores_in = IF d = 1 THEN 0
                                              ELSE L[CHOOSE i \in Called(d - 1) : TRUE].stores_out
                          /\ d = agent.depth =>
                                 j = Len(L) /\ L[j].stores_out = Len(calls[k].stores)
                          /\ \A i \in Called(d - 1) : i < j
            /\ k = 1 => Caches(calls[k].before) = Caches(New(CacheCapacity))
            /\ Caches(TableAfter(k)) = Caches(Replay(calls[k].before, calls[k].stores, 1))
            /\ legal_moves(root) # <<>> =>
                   calls[k].action =
                       MakeMove(sorted_moves(root,
                                             best_move(TableAfter(k), position_hash(root)))[1])

\* C33 witness: two get_action calls of an agent of depth 2, the second on a
\* table that holds entries of the first, one of them on a root in check.
C33_Witness ==
    /\ Len(calls) = 2
    /\ agent.depth = 2
    /\ calls[1].stores # <<>> /\ calls[2].stores # <<>>
    /\ Caches(calls[2].before) # Caches(New(CacheCapacity))
    /\ \E k \in DOMAIN calls : in_check(calls[k].board) /\ legal_moves(calls[k].board) # <<>>

\* the table of get_action call number k when the first n stores of its
\* search have been made
TableAt(k, n) == Replay(calls[k].before, SubSeq(calls[k].stores, 1, n), 1)

\* C37: every store update_evaluation_and_best_move(key, d, node, Some(m))
\* made by a search overwrites at least one of the two buckets of the key's
\* slot, so that immediately afterwards get_evaluation_and_depth(key) is a
\* hit and best_move(key) is Some.
C37_StoreRetained ==
    \A k \in DOMAIN calls :
        \A n \in DOMAIN calls[k].stores :
            LET st == calls[k].stores[n]
                tt == TableAt(k, n - 1)
                i == st.hash % tt.cache_size
            IN  st.bm # None =>
                    /\ \/ shallow_replaces(tt.shallow_cache[i], st.depth)
                       \/ deep_replaces(tt.deep_cache[i], st.depth)
                    /\ get_evaluation_and_depth(TableAt(k, n), st.hash) # None
                    /\ best_move(TableAt(k, n), st.hash) # None

\* C39: a null-move search null_alpha_beta that starts with a remaining
\* depth > 0 on a position that has no legal move returns the terminal
\* evaluation of that position (0 for a stalemate, MIN for a checkmate),
\* whatever window it was given.
C39_NullSearchTerminal ==
    \A k \in DOMAIN calls :
        \A j \in DOMAIN calls[k].log :
            LET r == calls[k].log[j]
            IN  (NullAttempt(r) /\ r.depth - 3 > 0
                    /\ status(null_move(r.board)[1]) # "Ongoing") =>
                    null_alpha_beta(agent.evaluator, null_move(r.board)[1], r.depth - 3,
                                    Neg(r.beta), I16(Neg(r.beta) + 1))
                        = evaluate(agent.evaluator, null_move(r.board)[1])

\* C40: on every root position, ongoing, checkmate or stalemate, and at
\* every depth get_action and its alpha_beta calls complete without
\* failing: the first element of the ordered move list is read, in
\* principal_variation_search and at the end of get_action, only when the
\* position has a legal move.
C40_NoRuntimeFailure ==
    \A k \in DOMAIN calls :
        /\ calls[k].action.kind # "Panic"
        /\ \A j \in DOMAIN calls[k].log :
               calls[k].log[j].exit = "pvs" => legal_moves(calls[k].log[j].board) # <<>>

\* the window and the value of the call r stay within [MIN, MAX], and the
\* negations and null windows computed from them are i16 values
BoundedCall(r) ==
    /\ InRange(r.alpha_orig) /\ InRange(r.beta_orig)
    /\ InRange(r.alpha) /\ InRange(r.beta) /\ InRange(r.value)
    /\ Fits(0 - r.alpha) /\ Fits(0 - r.beta) /\ Fits(0 - r.value)
    /\ Fits(0 - r.alpha - 1) /\ Fits(0 - r.value - 1) /\ Fits(0 - r.beta + 1)
    /\ r.exit = "horizon" => r.value = q_search(agent.evaluator, r.board, r.alpha, r.beta)
    /\ NullAttempt(r) => InRange(NullScore(r))

\* C15: in a search get_action starts with the window (MIN, MAX), the static
\* evaluation of every position, the window and the value of every alpha_beta
\* call (the value of a horizon call is the value of its q_search call), and
\* the score of every null-move search lie in [-30000, 30000]; the negations
\* and the windows -alpha - 1 and -beta + 1 computed from them do not wrap.
C15_ScoreBounds ==
    /\ \A board \in Positions : InRange(evaluate(agent.evaluator, board))
    /\ \A k \in DOMAIN calls :
           /\ \A d \in DOMAIN calls[k].scores : InRange(calls[k].scores[d])
           /\ \A j \in DOMAIN calls[k].log : BoundedCall(calls[k].log[j])

\* C15 witness: the search made a null-move search of depth >= 1, searched a
\* move with the null window (MAX - 1, MAX), and met a mate score.
C15_Witness ==
    \E k \in DOMAIN calls :
        /\ \E j \in DOMAIN calls[k].log :
               NullAttempt(calls[k].log[j]) /\ calls[k].log[j].depth >= 4
        /\ \E j \in DOMAIN calls[k].log :
               calls[k].log[j].alpha_orig = MAX - 1 /\ calls[k].log[j].beta_orig = MAX
        /\ \E j \in DOMAIN calls[k].log : calls[k].log[j].value = MIN

\* how many times chess_move occurs in moves
Occurrences(moves, chess_move) == Cardinality({i \in DOMAIN moves : moves[i] = chess_move})

\* the position and the list of the expand call that ended the last
\* get_action call (line 314): the table is as the search left it
LastRoot == calls[Len(calls)].board
LastHint == best_move(agent.tt, position_hash(LastRoot))
LastExpand == sorted_moves(LastRoot, LastHint)

\* C16: sorted_moves(pos, hint) holds every legal move of pos exactly once
\* and nothing else; a hint that is present and legal comes first, and a hint
\* that is absent or not legal changes nothing.
C16_SortedMovesOnce ==
    calls # <<>> =>
        /\ \A m \in Range(legal_moves(LastRoot)) : Occurrences(LastExpand, m) = 1
        /\ Range(LastExpand) \subseteq Range(legal_moves(LastRoot))
        /\ (LastHint # None /\ legal(LastRoot, LastHint[1])) => LastExpand[1] = LastHint[1]
        /\ (LastHint = None \/ ~legal(LastRoot, LastHint[1])) =>
               LastExpand = sorted_moves(LastRoot, None)

\* the score of a position whose game is over
TerminalScore(board) == IF status(board) = "Stalemate" THEN 0 ELSE -30000

\* the alpha_beta call r on a finished position returned its terminal score
\* at once: no move list, no store
TerminalReturn(r) ==
    /\ r.exit = "terminal"
    /\ r.value = TerminalScore(r.board)
    /\ r.node = None
    /\ r.bm = None

\* C17: evaluate is 0 for a stalemate and -30000 for a checkmate; every
\* alpha_beta call on a position whose status is not Ongoing, at any depth
\* and window, returns that score unless it returns an Exact table entry,
\* and it neither expands the position nor stores anything: no bucket of the
\* table ever holds the key of such a position.
C17_TerminalScoring ==
    /\ \A board \in Positions :
           status(board) # "Ongoing" =>
               evaluate(agent.evaluator, board) = TerminalScore(board)
    /\ \A k \in DOMAIN calls :
           \A j \in DOMAIN calls[k].log :
               (status(calls[k].log[j].board) # "Ongoing" /\ calls[k].log[j].exit # "hit") =>
                   TerminalReturn(calls[k].log[j])
    /\ \A bucket \in Buckets :
           \A board \in Positions :
               bucket.hash = position_hash(board) => status(board) = "Ongoing"

\* C17 witness: alpha_beta returned -30000 for a checkmate position at a
\* remaining depth of at least 1, in a window that lies above that score.
C17_Witness ==
    \E k \in DOMAIN calls :
        \E j \in DOMAIN calls[k].log :
            /\ status(calls[k].log[j].board) = "Checkmate"
            /\ calls[k].log[j].depth >= 1
            /\ calls[k].log[j].alpha_orig > MIN
            /\ calls[k].log[j].value = MIN

(***************************************************************************)
(* Properties of the transposition table (SpecTT).                         *)
(***************************************************************************)
\* the table as store number i left it
After(i) == IF i < Len(hist) THEN hist[i + 1].before ELSE agent.tt

\* the slot's buckets before and after store number i
DeepBefore(i) == hist[i].before.deep_cache[hist[i].hash % hist[i].before.cache_size]
DeepAfter(i) == After(i).deep_cache[hist[i].hash % hist[i].before.cache_size]
ShallowBefore(i) == hist[i].before.shallow_cache[hist[i].hash % hist[i].before.cache_size]
ShallowAfter(i) == After(i).shallow_cache[hist[i].hash % hist[i].before.cache_size]

\* the last operation was the probe `op` of key `hash`, made after every store
LastProbe(op, hash) == ret # None /\ ret.op = op /\ ret.hash = hash

\* bucket `after` holds the key, depth and node of store number i
Overwritten(i, after) ==
    /\ after.hash = hist[i].hash
    /\ after.depth = hist[i].depth
    /\ after.value = hist[i].node

\* the first two stores are for one key, the first one at depth 1 with a move
TwoStoresOneKey ==
    /\ Len(hist) = 2
    /\ hist[1].hash = hist[2].hash
    /\ hist[1].depth = 1
    /\ hist[1].bm # None

\* C7: on a newly constructed table, after one store of an Exact (Principal)
\* node with a move at any depth, get_evaluation_and_depth of the key returns
\* that node and depth, and best_move of the key returns that move.
C7_StoreRetrieve ==
    (Len(hist) = 1 /\ hist[1].node.kind = "Principal" /\ hist[1].bm # None) =>
        /\ LastProbe("get_evaluation_and_depth", hist[1].hash) =>
               ret.value = Some(<<hist[1].node, hist[1].depth>>)
        /\ LastProbe("best_move", hist[1].hash) => ret.value = hist[1].bm

\* C7 witness: a promotion move stored at depth 255 on the new table has been
\* read back by best_move.
C7_Witness ==
    /\ Len(hist) = 1
    /\ hist[1].depth = DEEP_INIT_DEPTH
    /\ hist[1].bm = Some(E7E8Q)
    /\ LastProbe("best_move", hist[1].hash)
    /\ ret.value = Some(E7E8Q)

\* C8: every store at depth d overwrites the key, depth and node of the
\* slot's deep bucket exactly when the depth the bucket held was >= d, and
\* otherwise leaves the deep bucket as it was.  Hence, on a new table and for
\* one key, a store at depth 1 (with a move) followed by a store at a greater
\* depth leaves get_evaluation_and_depth returning the depth-1 node and depth,
\* and followed by a store at depth 0 makes it return the depth-0 node and
\* depth.
C8_DeepBucketPolicy ==
    /\ \A i \in DOMAIN hist :
           IF DeepBefore(i).depth >= hist[i].depth
           THEN Overwritten(i, DeepAfter(i))
           ELSE DeepAfter(i) = DeepBefore(i)
    /\ (TwoStoresOneKey /\ LastProbe("get_evaluation_and_depth", hist[1].hash)) =>
           /\ hist[2].depth > 1 => ret.value = Some(<<hist[1].node, 1>>)
           /\ hist[2].depth < 1 => ret.value = Some(<<hist[2].node, hist[2].depth>>)

\* C8 witness: depth 1 and then depth 8 were stored for one key with different
\* nodes, and the probe returned the depth-1 node.
C8_Witness ==
    /\ TwoStoresOneKey
    /\ hist[2].depth = 8
    /\ hist[2].node # hist[1].node
    /\ LastProbe("get_evaluation_and_depth", hist[1].hash)
    /\ ret.value = Some(<<hist[1].node, 1>>)

\* C9: every store at depth d overwrites the slot's shallow bucket exactly
\* when the depth the bucket held was <= d, and otherwise leaves it as it
\* was.  Hence, on a new table and for one key, (depth 1, move A) followed by
\* (depth d2 >= 1, move B) makes best_move return B, and followed by
\* (depth 0, move B) leaves best_move returning A.
C9_ShallowBucketPolicy ==
    /\ \A i \in DOMAIN hist :
           IF ShallowBefore(i).depth <= hist[i].depth
           THEN Overwritten(i, ShallowAfter(i))
           ELSE ShallowAfter(i) = ShallowBefore(i)
    /\ (TwoStoresOneKey /\ hist[2].bm # None /\ LastProbe("best_move", hist[1].hash)) =>
           /\ hist[2].depth >= 1 => ret.value = hist[2].bm
           /\ hist[2].depth < 1 => ret.value = hist[1].bm

\* C9 witness: (depth 1, A) and then (depth 0, B) were stored for one key,
\* A and B different, and best_move returned A.
C9_Witness ==
    /\ TwoStoresOneKey
    /\ hist[2].depth = 0
    /\ hist[2].bm # None
    /\ hist[2].bm # hist[1].bm
    /\ LastProbe("best_move", hist[1].hash)
    /\ ret.value = hist[1].bm

\* the move a bucket offers for a key: its stored key matches and its move
\* hash is not zero
Offers(bucket, hash) == bucket.hash = hash /\ bucket.best_move_hash # 0

\* C10 as stated: best_move returns the deep bucket's move whenever the deep
\* bucket offers one for the key, and the shallow bucket's move only when the
\* deep bucket offers none.
C10_DeepFirst ==
    \A hash \in Keys :
        LastProbe("best_move", hash) =>
            LET deep == agent.tt.deep_cache[hash % agent.tt.cache_size]
                shallow == agent.tt.shallow_cache[hash % agent.tt.cache_size]
            IN  ret.value = IF Offers(deep, hash)
                            THEN Some(get_move(deep.best_move_hash))
                            ELSE IF Offers(shallow, hash)
                            THEN Some(get_move(shallow.best_move_hash))
                            ELSE None

\* C10 (amended): best_move returns the shallow bucket's move whenever the
\* shallow bucket offers one for the key; the deep bucket's move is returned
\* only when the shallow bucket offers none, and None when neither does.
C10_ShallowFirst ==
    \A hash \in Keys :
        LastProbe("best_move", hash) =>
            LET deep == agent.tt.deep_cache[hash % agent.tt.cache_size]
                shallow == agent.tt.shallow_cache[hash % agent.tt.cache_size]
            IN  ret.value = IF Offers(shallow, hash)
                            THEN Some(get_move(shallow.best_move_hash))
                            ELSE IF Offers(deep, hash)
                            THEN Some(get_move(deep.best_move_hash))
                            ELSE None

\* C10 witness: both buckets offer a move for the key, the two moves differ,
\* and best_move returned the shallow bucket's.
C10_Witness ==
    \E hash \in Keys :
        LET deep == agent.tt.deep_cache[hash % agent.tt.cache_size]
            shallow == agent.tt.shallow_cache[hash % agent.tt.cache_size]
        IN  /\ Offers(deep, hash)
            /\ Offers(shallow, hash)
            /\ deep.best_move_hash # shallow.best_move_hash
            /\ LastProbe("best_move", hash)
            /\ ret.value = Some(get_move(shallow.best_move_hash))

\* the buckets of the slot a key maps to
DeepOf(hash) == agent.tt.deep_cache[hash % agent.tt.cache_size]
ShallowOf(hash) == agent.tt.shallow_cache[hash % agent.tt.cache_size]

\* C11: get_evaluation_and_depth of a key returns the (node, depth) of the
\* slot's deep bucket when that bucket's stored key equals the key and its
\* move hash is not zero, else the (node, depth) of the shallow bucket under
\* the same condition, else None; and a (node, depth) it returns is the node
\* and depth of one store made for that key.
C11_ProbeHit ==
    \A hash \in Keys :
        LastProbe("get_evaluation_and_depth", hash) =>
            /\ ret.value = IF Offers(DeepOf(hash), hash)
                           THEN Some(<<DeepOf(hash).value, DeepOf(hash).depth>>)
                           ELSE IF Offers(ShallowOf(hash), hash)
                           THEN Some(<<ShallowOf(hash).value, ShallowOf(hash).depth>>)
                           ELSE None
            /\ ret.value # None =>
                   \E i \in DOMAIN hist :
                       /\ hist[i].hash = hash
                       /\ hist[i].node = ret.value[1][1]
                       /\ hist[i].depth = ret.value[1][2]

\* C11 witness: the deep bucket holds the other key of the slot, and the probe
\* returned the shallow bucket's node and depth.
C11_Witness ==
    \E hash \in Keys :
        /\ LastProbe("get_evaluation_and_depth", hash)
        /\ DeepOf(hash).hash # hash
        /\ DeepOf(hash).best_move_hash # 0
        /\ ret.value = Some(<<ShallowOf(hash).value, ShallowOf(hash).depth>>)

\* what store number i does to the bucket that held `before`: `replaced`
\* says whether the store overwrites it
StoreEffect(i, replaced, before, after) ==
    IF replaced
    THEN /\ Overwritten(i, after)
         /\ after.best_move_hash = IF hist[i].bm = None THEN before.best_move_hash
                                   ELSE get_hash(hist[i].bm[1])
    ELSE /\ after.hash = before.hash
         /\ after.depth = before.depth
         /\ after.value = before.value
         /\ after.best_move_hash = before.best_move_hash

\* C34: a store with no move that overwrites a bucket replaces the bucket's
\* key, depth and node and leaves its move hash as it was; a store with
\* Some(m) that overwrites a bucket sets the move hash to get_hash(m); a
\* store that does not overwrite a bucket leaves its four fields as they
\* were.  (The shallow bucket is overwritten when its depth is <= the
\* store's, the deep bucket when its depth is >= the store's.)  The buckets
\* of the other slots stay as they were.
C34_AbsentMove ==
    \A i \in DOMAIN hist :
        /\ StoreEffect(i, ShallowBefore(i).depth <= hist[i].depth,
                       ShallowBefore(i), ShallowAfter(i))
        /\ StoreEffect(i, DeepBefore(i).depth >= hist[i].depth, DeepBefore(i), DeepAfter(i))
        /\ \A slot \in DOMAIN hist[i].before.deep_cache :
               slot # hist[i].hash % hist[i].before.cache_size =>
                   /\ After(i).deep_cache[slot] = hist[i].before.deep_cache[slot]
                   /\ After(i).shallow_cache[slot] = hist[i].before.shallow_cache[slot]

\* C34 witness: a store with no move has overwritten a bucket that held
\* another key and a move, and the bucket still holds that move.
C34_Witness ==
    \E i \in DOMAIN hist :
        /\ hist[i].bm = None
        /\ ShallowBefore(i).depth <= hist[i].depth
        /\ ShallowBefore(i).best_move_hash # 0
        /\ ShallowBefore(i).hash # hist[i].hash
        /\ ShallowAfter(i).hash = hist[i].hash
        /\ ShallowAfter(i).best_move_hash = ShallowBefore(i).best_move_hash

\* C36: over any sequence of stores, for any keys of the slot, the depth in
\* a slot's deep bucket never increases and the depth in its shallow bucket
\* never decreases.
C36_DepthMonotonicity ==
    \A i \in DOMAIN hist :
        \A slot \in DOMAIN hist[i].before.deep_cache :
            /\ After(i).deep_cache[slot].depth <= hist[i].before.deep_cache[slot].depth
            /\ After(i).shallow_cache[slot].depth >= hist[i].before.shallow_cache[slot].depth

\* C36 witness: after two stores on one slot for different keys the deep
\* bucket's depth has gone down twice and the shallow bucket's depth has
\* gone up and then stayed.
C36_Witness ==
    /\ Len(hist) = 2
    /\ hist[1].hash # hist[2].hash
    /\ DeepAfter(2).depth < DeepBefore(2).depth
    /\ DeepAfter(1).depth < DeepBefore(1).depth
    /\ ShallowAfter(1).depth > ShallowBefore(1).depth
    /\ ShallowAfter(2).depth = ShallowBefore(2).depth

\* C12: the move of every bucket whose move hash is not zero was supplied by
\* a store made for the key the bucket holds.
C12_MoveOwnership ==
    \A bucket \in Buckets :
        bucket.best_move_hash # 0 =>
            \E i \in DOMAIN hist :
                /\ hist[i].hash = bucket.hash
                /\ hist[i].bm = Some(get_move(bucket.best_move_hash))

(***************************************************************************)
(* Properties of the table shared by several threads (SpecShared).         *)
(***************************************************************************)
\* C19: a store's update of the shallow and of the deep bucket of a slot is
\* atomic for the other threads: no block of a probe, best_move or store of
\* another thread runs on the slot between the shallow-bucket block and the
\* deep-bucket block of one store.
C19_SlotAtomicity ==
    \A t \in DOMAIN threads : ~threads[t].interleaved

\* C20: a poisoned bucket lock is advisory: a later probe, best_move or store
\* on that slot is a miss or a no-op and the calling thread goes on; it
\* does not fail on the poisoned lock.
C20_PoisonAdvisory ==
    \A t \in DOMAIN threads :
        ~(threads[t].pc = "panicked" /\ threads[t].cause = "PoisonError")

\* thread t is inside a function of the table
Busy(t) == threads[t].pc \notin {"idle", "panicked"}

\* no thread can take a step although some thread is inside a function
Deadlocked ==
    /\ \E t \in ThreadIds : Busy(t)
    /\ \A t \in ThreadIds :
           Busy(t) => /\ Needs(threads[t]) \notin threads[t].held
                      /\ \E u \in ThreadIds : Needs(threads[t]) \in threads[u].held

\* C38: threads that call best_move, get_evaluation_and_depth and
\* update_evaluation_and_best_move on one table never deadlock: a thread
\* holds at most one bucket mutex at any time (and never waits for a mutex
\* while it holds one), no two threads hold one mutex, and under fair
\* scheduling every call returns or ends in a panic.
C38_DeadlockFreedom ==
    /\ [](/\ ~Deadlocked
          /\ \A t \in ThreadIds :
                 /\ Cardinality(threads[t].held) <= 1
                 /\ threads[t].held # {} => threads[t].held = {Needs(threads[t])}
                 /\ \A u \in ThreadIds \ {t} : threads[t].held \cap threads[u].held = {})
    /\ \A t \in ThreadIds : Busy(t) ~> ~Busy(t)

\* C38 witness: a store that has updated the shallow bucket of a slot waits
\* for the mutex of the deep bucket, which a get_evaluation_and_depth call
\* of another thread holds.
C38_Witness ==
    \E t, u \in ThreadIds :
        /\ threads[t].pc = "store_deep" /\ threads[t].held = {}
        /\ threads[u].pc = "evaluation_deep"
        /\ threads[u].held = {Needs(threads[t])}

(***************************************************************************)
(* Properties of the evaluator                                             *)
(***************************************************************************)
\* the square of the same file on the mirrored rank (square XOR 56)
MirrorSquare(sq) == ((7 - (sq \div 8)) * 8) + (sq % 8)

\* the same position with the other side to move
SwapSide(board) == [board EXCEPT !.side_to_move = Other(@)]

\* the colour-swapping vertical mirror: every piece changes colour and goes
\* to the square of the same file on the mirrored rank, the side to move swaps
Mirror(board) ==
    [side_to_move |-> Other(board.side_to_move),
     pieces |-> [sq \in {MirrorSquare(q) : q \in DOMAIN board.pieces} |->
                    [color |-> Other(board.pieces[MirrorSquare(sq)].color),
                     piece |-> board.pieces[MirrorSquare(sq)].piece]]]

\* material plus piece-square total of one colour, square by square
RECURSIVE Total(_, _, _)
Total(board, color, squares) ==
    IF squares = {} THEN 0
    ELSE LET sq == CHOOSE q \in squares : TRUE
         IN  (IF board.pieces[sq].color = color
              THEN piece_value(board.pieces[sq].piece)
                   + position_value(board.pieces[sq].piece, color, sq)
              ELSE 0)
             + Total(board, color, squares \ {sq})

AfterE4 == board_make_move_new(BoardDefault, 12, 28)

\* C18: on every non-terminal position evaluate is the side to move's
\* material and piece-square total minus the opponent's; it is negated when
\* only the side to move is swapped and unchanged under the colour-swapping
\* vertical mirror; the initial position evaluates to 0 and the position
\* after 1.e2e4, Black to move, to a value <= 0.
C18_SignConvention ==
    (ret # None /\ ret.op = "evaluate") =>
        /\ ret.value = naive_evaluate(chess_board)
        /\ ret.value = Total(chess_board, chess_board.side_to_move, DOMAIN chess_board.pieces)
                         - Total(chess_board, Other(chess_board.side_to_move),
                                 DOMAIN chess_board.pieces)
        /\ naive_evaluate(SwapSide(chess_board)) = 0 - ret.value
        /\ naive_evaluate(Mirror(chess_board)) = ret.value
        /\ (chess_board = BoardDefault => ret.value = ZERO)
        /\ (chess_board = AfterE4 => ret.value <= 0)

C18_Witness ==
    /\ ret # None /\ ret.op = "evaluate"
    /\ chess_board = AfterE4
    /\ ret.value = -3
    /\ naive_evaluate(SwapSide(chess_board)) = 3
    /\ naive_evaluate(Mirror(chess_board)) = -3

(***************************************************************************)
(* Properties of the command-line agent (SpecCli).                         *)
(***************************************************************************)
\* the line without the whitespace before its first and after its last
\* character that is no whitespace
Trimmed(line) ==
    LET inked == {k \in DOMAIN line : ~is_whitespace(line[k])}
    IN  IF inked = {} THEN <<>>
        ELSE SubSeq(line, CHOOSE k \in inked : \A j \in inked : k <= j,
                          CHOOSE k \in inked : \A j \in inked : k >= j)

\* the line is 'resign' or a move that is legal in the position of the game
Accepted(line) ==
    \/ Trimmed(line) = RESIGN
    \/ /\ from_str(Trimmed(line)) # None
       /\ legal(search.board, from_str(Trimmed(line))[1])

\* the Action the line stands for
ActionOf(line) ==
    IF Trimmed(line) = RESIGN THEN Resign(search.side_to_move)
    ELSE MakeMove(from_str(Trimmed(line))[1])

Prompts == Cardinality({k \in DOMAIN stdout : stdout[k] = PROMPT[1]})

Rejections ==
    Cardinality({k \in DOMAIN stdout :
                    stdout[k] \in {"Illegal Move for current position",
                                   "Failed to parse move format"}})

CliReturn ==
    /\ search.done <=> ret # None
    /\ search.done <=> (stdin # <<>> /\ Accepted(stdin[Len(stdin)]))
    /\ search.done => ret = Some(ActionOf(stdin[Len(stdin)]))
    /\ \A k \in 1..(Len(stdin) - 1) : ~Accepted(stdin[k])
    /\ Prompts = Len(stdin)
    /\ Rejections = Len(stdin) - (IF search.done THEN 1 ELSE 0)

\* C21: the command-line get_action returns only after reading the line
\* 'resign', giving Resign(side to move), or a line that parses as a move
\* legal in the current position, giving MakeMove of that move; every other
\* line (unparseable, or an illegal move) is answered by a new prompt and
\* the game stays as it was, whatever lines are typed.
C21_CommandLineAgent ==
    /\ [](search # None => CliReturn)
    /\ [][search # None =>
            /\ search'.board = search.board
            /\ search'.side_to_move = search.side_to_move]_vars

\* C21 witness: a move is returned after an unparseable line and an illegal
\* move were typed.
C21_Witness ==
    /\ search # None /\ search.done
    /\ Len(stdin) = 3
    /\ from_str(Trimmed(stdin[1])) = None
    /\ from_str(Trimmed(stdin[2])) # None /\ ~Accepted(stdin[2])
    /\ ret[1].kind = "MakeMove"
    /\ Len(stdin[3]) > Len(Trimmed(stdin[3]))

(***************************************************************************)
(* Properties of the quiescence search (SpecQSearch).                      *)
(***************************************************************************)
\* the scores of the captures moves[i..] of board in the order they are
\* searched: each is the negated recursive score with the window
\* (-beta, -alpha), alpha being the largest of alpha, the stand-pat
\* evaluation and the scores before it
RECURSIVE CaptureScores(_, _, _, _, _, _)
CaptureScores(evaluator, board, moves, i, alpha, beta) ==
    IF i > Len(moves) THEN <<>>
    ELSE LET score == Neg(q_search(evaluator, make_move_new(board, moves[i]),
                                   Neg(beta), Neg(alpha)))
         IN  <<score>> \o CaptureScores(evaluator, board, moves, i + 1,
                                        Max2(alpha, score), beta)

\* the value of the position when every capture line is played out with
\* no window
RECURSIVE Quiescence(_, _)
Quiescence(evaluator, board) ==
    LET moves == sorted_captures(board)
        RECURSIVE Best(_, _)
        Best(i, best) ==
            IF i > Len(moves) THEN best
            ELSE Best(i + 1, Max2(best, Neg(Quiescence(evaluator,
                                                       make_move_new(board, moves[i])))))
    IN  Best(1, evaluate(evaluator, board))

Clamp(value, alpha, beta) == IF value <= alpha THEN alpha ELSE IF value >= beta THEN beta ELSE value

\* C30: q_search returns beta if the stand-pat evaluation or the negated
\* recursive score of some capture, taken in sorted_captures order, is
\* >= beta; otherwise it returns the largest of alpha, the stand-pat
\* evaluation and the negated recursive scores of all the captures.  The
\* result lies in [alpha, beta], and is the value of the played-out capture
\* lines brought into the window.
C30_QuiescenceResult ==
    (ret # None /\ ret.op = "q_search") =>
        LET evaluation == evaluate(agent.evaluator, ret.board)
            scores == CaptureScores(agent.evaluator, ret.board, sorted_captures(ret.board), 1,
                                    Max2(ret.alpha, evaluation), ret.beta)
            cut == evaluation >= ret.beta \/ \E i \in DOMAIN scores : scores[i] >= ret.beta
            best == CHOOSE v \in {ret.alpha, evaluation} \cup Range(scores) :
                        \A u \in {ret.alpha, evaluation} \cup Range(scores) : u <= v
        IN  /\ Len(scores) = Len(sorted_captures(ret.board))
            /\ cut => ret.value = ret.beta
            /\ ~cut => ret.value = best
            /\ ret.alpha <= ret.value /\ ret.value <= ret.beta
            /\ ret.value = Clamp(Quiescence(agent.evaluator, ret.board), ret.alpha, ret.beta)

\* C30 witness: a call on a position with a capture whose value is strictly
\* inside the window and above both alpha and the stand-pat evaluation, so
\* that a capture's score decided it.
C30_Witness ==
    /\ ret # None /\ ret.op = "q_search"
    /\ sorted_captures(ret.board) # <<>>
    /\ ret.alpha < ret.value /\ ret.value < ret.beta
    /\ evaluate(agent.evaluator, ret.board) < ret.value

(***************************************************************************)
(* Properties of the move ordering (SpecSort).                             *)
(***************************************************************************)
\* the value of a piece in the ordering of captures
PieceValue(piece) ==
    CASE piece = "Pawn" -> 1 [] piece = "Knight" -> 3 [] piece = "Bishop" -> 3
      [] piece = "Rook" -> 5 [] piece = "Queen" -> 9 [] piece = "King" -> 0

\* what the capture m wins: value[victim] - value[attacker]
Gain(board, m) ==
    PieceValue(move_record(board, m).vic) - PieceValue(move_record(board, m).att)

\* the destination square of m holds a piece of the opponent
TakesPiece(board, m) == move_record(board, m).vic # "None"

\* 1 for a capture, 2 for a promotion that is no capture, 3 for a quiet move
Rank(board, m) ==
    IF TakesPiece(board, m) THEN 1 ELSE IF m.promo # "None" THEN 2 ELSE 3

\* moves holds exactly the moves of the set S, each once, captures first in
\* non-increasing order of what they win, then the promotions, then the rest
Ordered(board, moves, S) ==
    /\ Range(moves) = S
    /\ Len(moves) = Cardinality(S)
    /\ \A i, j \in DOMAIN moves :
           i < j =>
               /\ Rank(board, moves[i]) <= Rank(board, moves[j])
               /\ TakesPiece(board, moves[j]) =>
                      Gain(board, moves[i]) >= Gain(board, moves[j])

\* C35: in sorted_moves, after the hint (present when it is a legal move),
\* and in sorted_captures, captures come in non-increasing order of
\* value[victim] - value[attacker] with the values P 1, N 3, B 3, R 5, Q 9,
\* K 0, every capture comes before every promotion that is no capture, and
\* every such promotion before every quiet move; sorted_moves lists the
\* legal moves, and sorted_captures exactly the legal moves whose
\* destination square holds a piece of the opponent.
C35_CaptureOrdering ==
    ret # None =>
        LET all == Range(legal_moves(ret.board))
            given == ret.hint # None /\ ret.hint[1] \in all
        IN  CASE ret.op = "sorted_moves" ->
                     /\ given => ret.value[1] = ret.hint[1]
                     /\ Ordered(ret.board,
                                IF given THEN Tail(ret.value) ELSE ret.value, all)
              [] ret.op = "sorted_captures" ->
                     Ordered(ret.board, ret.value,
                             {m \in all : TakesPiece(ret.board, m)})
              [] OTHER -> TRUE

\* C35 witness: sorted_moves with a quiet hint on a position that has
\* captures of different gains, a capture with promotion, promotions and a
\* quiet move, generated in another order than the sorted one.
C35_Witness ==
    /\ ret # None /\ ret.op = "sorted_moves"
    /\ ret.hint # None /\ ret.hint[1] \in Range(legal_moves(ret.board))
    /\ Rank(ret.board, ret.hint[1]) = 3
    /\ Tail(ret.value) # legal_moves(ret.board)
    /\ \A rank \in 1..3 : \E m \in Range(ret.value) : Rank(ret.board, m) = rank
    /\ \E m \in Range(ret.value) : TakesPiece(ret.board, m) /\ m.promo # "None"
    /\ Cardinality({Gain(ret.board, m) :
                       m \in {c \in Range(ret.value) : TakesPiece(ret.board, c)}}) >= 3

(***************************************************************************)
(* Properties of the move hash (SpecMoveHash).                             *)
(***************************************************************************)
\* 0 for no promotion, else the place of the piece among the promotion pieces
PromotionCode(promo) ==
    IF promo = "None" THEN 0
    ELSE CHOOSE k \in DOMAIN PROMOTION_PIECES : PROMOTION_PIECES[k] = promo

\* C14: get_hash of the move get_move returns for an index below 20480 is
\* that index; get_move of the hash get_hash returns for a move (any two
\* squares, no promotion or one of the four promotion pieces) is that move,
\* and that hash is (src * 64 + dst) * 5 + promotion code, below 20480.
C14_MoveHashBijection ==
    /\ (ret # None /\ ret.op = "get_move") => get_hash(ret.value) = ret.arg
    /\ (ret # None /\ ret.op = "get_hash") =>
           /\ get_move(ret.value) = ret.arg
           /\ ret.value = (ret.arg.src * 64 + ret.arg.dst) * 5 + PromotionCode(ret.arg.promo)
           /\ ret.value < HASH_SIZE

\* C14 witness: the last index of the table, 20479, was returned for the
\* move from square 63 to square 63 promoting to the last promotion piece.
C14_Witness ==
    /\ ret # None /\ ret.op = "get_hash"
    /\ ret.arg = ChessMove(63, 63, PROMOTION_PIECES[4])
    /\ ret.value = HASH_SIZE - 1

(***************************************************************************)
(* Properties of the call structure (SpecSearchFair).                      *)
(***************************************************************************)
\* the frames of the stack that took the check extension
ExtendedFrames == {k \in DOMAIN stack : stack[k].extended}

\* frame number k + 1 is a call made by frame number k
Nested(k) ==
    LET caller == stack[k]
        callee == stack[k + 1]
    IN  CASE callee.fn = "alpha_beta" ->
                 /\ caller.fn = "alpha_beta"
                 /\ caller.depth >= 1
                 /\ callee.called_depth = caller.depth - 1
          [] callee.fn = "null_alpha_beta" ->
                 \/ /\ caller.fn = "null_alpha_beta"
                    /\ caller.depth >= 1
                    /\ callee.called_depth = caller.depth - 1
                 \/ /\ caller.fn = "alpha_beta"
                    /\ caller.depth >= 3
                    /\ callee.called_depth = caller.depth - 3
          [] callee.fn = "q_search" ->
                 \/ /\ caller.fn = "alpha_beta"
                    /\ caller.depth = 0
                    /\ callee.board = caller.board
                 \/ /\ caller.fn = "q_search"
                    /\ \E m \in Range(legal_moves(caller.board)) :
                           /\ is_capture(caller.board, m)
                           /\ callee.board = make_move_new(caller.board, m)
                    /\ GameGraph[callee.board].pcs < GameGraph[caller.board].pcs

\* every nested call lowers the remaining depth or the piece count, and at
\* most one frame of the stack is extended, by one ply
DepthDecreases ==
    /\ \A k \in 1..(Len(stack) - 1) : Nested(k)
    /\ \A k \in DOMAIN stack :
           /\ stack[k].called_depth >= 0
           /\ stack[k].depth = stack[k].called_depth + (IF stack[k].extended THEN 1 ELSE 0)
    /\ Cardinality(ExtendedFrames) <= 1

\* the check_extension_enabled argument frame number k was called with: true
\* at the root, else the caller's flag after its own check_extension
FlagGiven(k) == IF k = 1 THEN TRUE ELSE stack[k - 1].check_extension_enabled

\* C26: along every chain of nested alpha_beta calls below a get_action root
\* the depth is raised by the check extension at most once; it is raised only
\* when the position is in check and may_extend (check_extension_enabled) is
\* true, and from then on may_extend is false in that call and in every call
\* below it.
C26_CheckExtension ==
    /\ Cardinality(ExtendedFrames) <= 1
    /\ \A k \in DOMAIN stack :
           /\ stack[k].extended =>
                  /\ stack[k].fn = "alpha_beta"
                  /\ stack[k].depth = stack[k].called_depth + 1
                  /\ in_check(stack[k].board)
                  /\ FlagGiven(k)
                  /\ \A j \in k..Len(stack) : ~stack[j].check_extension_enabled
           /\ ~stack[k].extended => stack[k].depth = stack[k].called_depth

\* C26 witness: below a call that took the extension, an alpha_beta call on
\* a position in check that did not take it.
C26_Witness ==
    \E k \in DOMAIN stack :
        /\ stack[k].extended
        /\ \E j \in (k + 1)..Len(stack) :
               /\ stack[j].fn = "alpha_beta"
               /\ in_check(stack[j].board)
               /\ ~stack[j].extended

GetActionReturned == search # None /\ search.done

\* C6: every get_action call returns.  At every moment of the search each
\* nested alpha_beta or null_alpha_beta call was made with the caller's
\* remaining depth minus one (minus three for the null-move search entered
\* from alpha_beta), at most one call on the stack has taken the +1 check
\* extension, and every q_search called by q_search is on the position after
\* a legal capture, which has fewer pieces.
C6_Termination == []DepthDecreases /\ <>GetActionReturned

\* C6 witness: a quiescence call nested in a quiescence call, below an
\* alpha_beta call that took the check extension.
C6_Witness ==
    /\ Len(stack) >= 3
    /\ Top.fn = "q_search"
    /\ stack[Len(stack) - 1].fn = "q_search"
    /\ ExtendedFrames # {}

====
